---- MODULE Spec2Model ----
(***************************************************************************)
(* A model of the interprocedural taint analysis of rust-ffi-checker:      *)
(* the MemoryState lattice, Allocation classes and BlockState              *)
(* (abstract_domain.rs), the classification of callees (known_names.rs),   *)
(* the transfer functions of BlockVisitor (block_visitor.rs), the worklist *)
(* solver of FuncAnalysis and the driver StaticAnalysis                    *)
(* (taint_analysis.rs), and the summary cache (summary.rs).                *)
(***************************************************************************)
EXTENDS Integers, Sequences, FiniteSets, TLC

(***************************************************************************)
(* MemoryState (abstract_domain.rs)                                        *)
(***************************************************************************)
MemoryState == {"Untainted", "Tainted", "Borrowed", "Forgotten", "Unknown"}

\* partial_cmp that puts Borrowed below Forgotten.
MSTotalCmp(self, other) ==
  IF self = other THEN "Equal"
  ELSE IF self = "Untainted" THEN "Less"
  ELSE IF self = "Tainted" THEN
    (IF other = "Untainted" THEN "Greater" ELSE "Less")
  ELSE IF self = "Borrowed" THEN
    (IF other = "Untainted" \/ other = "Tainted" THEN "Greater" ELSE "Less")
  ELSE IF self = "Forgotten" THEN
    (IF other = "Untainted" \/ other = "Tainted" \/ other = "Borrowed" THEN "Greater"
     ELSE "Less")
  ELSE "Greater"

\* PartialOrd for MemoryState: "Less", "Equal", "Greater" or "None".
MSPartialCmp(self, other) ==
  IF self = other THEN "Equal"
  ELSE IF self = "Untainted" THEN "Less"
  ELSE IF self = "Tainted" THEN
    (IF other = "Untainted" THEN "Greater" ELSE "Less")
  ELSE IF self = "Borrowed" THEN
    (IF other = "Untainted" \/ other = "Tainted" THEN "Greater"
     ELSE IF other = "Forgotten" THEN "None"
     ELSE "Less")
  ELSE IF self = "Forgotten" THEN
    (IF other = "Untainted" \/ other = "Tainted" THEN "Greater"
     ELSE IF other = "Borrowed" THEN "None"
     ELSE "Less")
  ELSE "Greater"

\* The comparison operators Rust derives from partial_cmp.
MSLe(a, b) == MSPartialCmp(a, b) \in {"Less", "Equal"}
MSLt(a, b) == MSPartialCmp(a, b) = "Less"
MSGe(a, b) == MSPartialCmp(a, b) \in {"Greater", "Equal"}
MSGt(a, b) == MSPartialCmp(a, b) = "Greater"

\* union that returns its second operand for an incomparable pair.
MSUnionOther(self, other) ==
  IF MSLe(self, other) THEN other
  ELSE IF MSGe(self, other) THEN self
  ELSE other

\* MemoryState::union
MSUnion(self, other) ==
  IF MSLe(self, other) THEN other
  ELSE IF MSGe(self, other) THEN self
  ELSE "Unknown"

\* Whether one of the two assert! of MemoryState::union fails.
MSUnionPanics(self, other) ==
  /\ ~MSLe(self, other) /\ ~MSGe(self, other)
  /\ \/ ~(self = "Borrowed" \/ self = "Forgotten")
     \/ ~(other = "Borrowed" \/ other = "Forgotten")

(***************************************************************************)
(* Names.  llvm_ir::Name is Name(String) or Number(usize).  A textual name *)
(* is kept as the sequence of its dot-separated components, so that        *)
(* "x.y.z" is <<"x","y","z">> and its dot-prefixes are the prefixes of     *)
(* that sequence, as str::split(".") produces them.                        *)
(***************************************************************************)
Num(k) == [num |-> TRUE, n |-> k, parts |-> <<>>]
Txt(p) == [num |-> FALSE, n |-> 0, parts |-> p]

\* The components used by the names of the model, in byte order.
Letters == <<"a", "b", "c", "d", "p", "q", "r", "s", "t", "u", "v", "x", "y", "z">>
StrRank(s) == CHOOSE i \in 1..Len(Letters) : Letters[i] = s

RECURSIVE PartsLt(_, _)
PartsLt(p, q) ==
  IF p = <<>> THEN q # <<>>
  ELSE IF q = <<>> THEN FALSE
  ELSE IF Head(p) = Head(q) THEN PartsLt(Tail(p), Tail(q))
  ELSE StrRank(Head(p)) < StrRank(Head(q))

\* Ord for Name (derived): every Name(..) is below every Number(..).
NameLt(a, b) ==
  IF a.num # b.num THEN b.num
  ELSE IF a.num THEN a.n < b.n
  ELSE PartsLt(a.parts, b.parts)

\* The names set_tainted inserts for var: var and, for a textual name, each
\* of its dot-prefixes.
Prefixes(var) ==
  IF var.num THEN {var}
  ELSE {var} \cup {Txt(SubSeq(var.parts, 1, k)) : k \in 1..Len(var.parts)}

(***************************************************************************)
(* BlockState: HashMap<Allocation, MemoryState>, a function from sets of   *)
(* names to states.  A HashMap is iterated in an order the program does    *)
(* not control: every operation that scans the map takes that order as a   *)
(* parameter `ord` (a sequence enumerating the keys), and the set-valued   *)
(* forms range over all orders.                                            *)
(***************************************************************************)
EmptyState == [a \in {} |-> "Untainted"]
NoAlloc == {}

RECURSIVE Perms(_)
Perms(S) ==
  IF S = {} THEN {<<>>}
  ELSE UNION {{<<x>> \o p : p \in Perms(S \ {x})} : x \in S}

\* Whether no name lies in two Allocations of bs.
Disjoint(bs) == \A a, b \in DOMAIN bs : a = b \/ a \cap b = {}

RECURSIVE SetToSeq(_)
SetToSeq(S) ==
  IF S = {} THEN <<>>
  ELSE LET x == CHOOSE x \in S : TRUE IN <<x>> \o SetToSeq(S \ {x})

\* The iteration orders of the HashMap of bs.
KeyOrders(bs) == Perms(DOMAIN bs)

\* The iteration orders of bs as far as a lookup by name can tell them
\* apart: when no name lies in two Allocations, every order finds the same
\* Allocation, and one order stands for all.
Orders(bs) == IF Disjoint(bs) THEN {SetToSeq(DOMAIN bs)} ELSE KeyOrders(bs)

\* BTreeSet iteration: the names of an Allocation in ascending order.
RECURSIVE SortedNames(_)
SortedNames(S) ==
  IF S = {} THEN <<>>
  ELSE LET m == CHOOSE x \in S : \A y \in S : x = y \/ NameLt(x, y)
       IN <<m>> \o SortedNames(S \ {m})

BSInsert(bs, alloc, st) ==
  [a \in (DOMAIN bs) \cup {alloc} |-> IF a = alloc THEN st ELSE bs[a]]
BSRemove(bs, alloc) == [a \in (DOMAIN bs) \ {alloc} |-> bs[a]]

\* BlockState::get_allocation under iteration order ord (NoAlloc for None).
GetAllocationO(ord, var) ==
  IF \E i \in 1..Len(ord) : var \in ord[i]
  THEN ord[CHOOSE i \in 1..Len(ord) :
             var \in ord[i] /\ \A j \in 1..(i-1) : var \notin ord[j]]
  ELSE NoAlloc

\* BlockState::get_memory_state under iteration order ord.
GetMemoryStateO(bs, ord, var) ==
  LET a == GetAllocationO(ord, var)
  IN IF a = NoAlloc THEN "Untainted" ELSE bs[a]

GetMemoryStates(bs, var) == {GetMemoryStateO(bs, ord, var) : ord \in Orders(bs)}

\* is_tainted with a strict comparison (Tainted itself no longer counts).
IsTaintedStrict(bs, ord, var) == MSLt("Tainted", GetMemoryStateO(bs, ord, var))

\* BlockState::is_tainted
IsTaintedO(bs, ord, var) == MSLe("Tainted", GetMemoryStateO(bs, ord, var))

\* set_tainted that stores the state it is given, Untainted included.
SetTaintedStore(bs, ord, var, state) ==
  LET alloc == GetAllocationO(ord, var)
  IN IF alloc # NoAlloc THEN BSInsert(BSRemove(bs, alloc), alloc \cup Prefixes(var), state)
     ELSE BSInsert(bs, Prefixes(var), state)

\* set_tainted that adds the dot-prefixes only for an untracked name.
SetTaintedNoExpand(bs, ord, var, state) ==
  LET alloc == GetAllocationO(ord, var)
  IN IF alloc # NoAlloc THEN
       (IF state = "Untainted" THEN BSRemove(bs, alloc)
        ELSE BSInsert(BSRemove(bs, alloc), alloc, state))
     ELSE
       (IF state # "Untainted" THEN BSInsert(bs, Prefixes(var), state)
        ELSE bs)

\* BlockState::set_tainted
SetTaintedO(bs, ord, var, state) ==
  LET alloc == GetAllocationO(ord, var)
  IN IF alloc # NoAlloc THEN
       (IF state = "Untainted" THEN BSRemove(bs, alloc)
        ELSE BSInsert(BSRemove(bs, alloc), alloc \cup Prefixes(var), state))
     ELSE
       (IF state # "Untainted" THEN BSInsert(bs, Prefixes(var), state)
        ELSE bs)

SetTainted(bs, var, state) ==
  {SetTaintedO(bs, ord, var, state) : ord \in Orders(bs)}

\* BlockState::propagate_taint
PropagateTaintO(bs, ord, from, to) ==
  LET from_state == GetMemoryStateO(bs, ord, from)
      from_alloc == GetAllocationO(ord, from)
      to_alloc == GetAllocationO(ord, to)
  IN IF from_state = "Untainted" THEN
       (IF to_alloc # NoAlloc THEN
          LET mem_state == bs[to_alloc]
              new_to_alloc == to_alloc \ {to}
              removed == BSRemove(bs, to_alloc)
          IN IF new_to_alloc # {} THEN BSInsert(removed, new_to_alloc, mem_state)
             ELSE removed
        ELSE bs)
     ELSE
       (IF to_alloc # NoAlloc THEN
          BSInsert(BSRemove(BSRemove(bs, from_alloc), to_alloc),
                   from_alloc \cup to_alloc, from_state)
        ELSE
          BSInsert(BSRemove(bs, from_alloc), from_alloc \cup {to}, from_state))

PropagateTaint(bs, from, to) ==
  {PropagateTaintO(bs, ord, from, to) : ord \in Orders(bs)}

\* The names of a BlockState in the order `union` collects them: the keys in
\* iteration order, each key's names in ascending order.
RECURSIVE VarsOf(_)
VarsOf(ord) ==
  IF ord = <<>> THEN <<>> ELSE SortedNames(Head(ord)) \o VarsOf(Tail(ord))

\* One round of the loop of BlockState::union for `var`; ordR is the iteration
\* order of the result built so far.
UnionStepO(res, ordR, var, self, ordS, other, ordO) ==
  LET var_state == GetMemoryStateO(res, ordR, var)
  IN IF MSGt(var_state, "Untainted") THEN
       LET alloc == GetAllocationO(ordR, var)
           var_state_self == GetMemoryStateO(self, ordS, var)
           var_state_other == GetMemoryStateO(other, ordO, var)
       IN BSInsert(res, alloc,
                   MSUnion(MSUnion(var_state, var_state_self), var_state_other))
     ELSE
       LET alloc1 == GetAllocationO(ordS, var)
           alloc2 == GetAllocationO(ordO, var)
       IN IF alloc1 # NoAlloc THEN
            (IF alloc2 # NoAlloc THEN
               BSInsert(res, alloc1 \cup alloc2, MSUnion(self[alloc1], other[alloc2]))
             ELSE BSInsert(res, alloc1, self[alloc1]))
          ELSE BSInsert(res, alloc2, other[alloc2])

RECURSIVE UnionFold(_, _, _, _, _, _)
UnionFold(res, vars, self, ordS, other, ordO) ==
  IF vars = <<>> THEN {res}
  ELSE UNION {UnionFold(step, Tail(vars), self, ordS, other, ordO)
              : step \in {UnionStepO(res, ordR, Head(vars), self, ordS, other, ordO)
                          : ordR \in Orders(res)}}

\* BlockState::union for every iteration order of its operands.
BSUnionAll(self, other) ==
  UNION {UnionFold(EmptyState, VarsOf(ordS) \o VarsOf(ordO), self, ordS, other, ordO)
         : ordS \in KeyOrders(self), ordO \in KeyOrders(other)}

\* Operands whose Allocations are pairwise disjoint or equal: the loop of
\* union then inserts each Allocation once, whole, whatever the order.
Aligned(self, other) ==
  /\ Disjoint(self) /\ Disjoint(other)
  /\ \A a \in DOMAIN self, b \in DOMAIN other : a = b \/ a \cap b = {}
Merged(self, other) ==
  [a \in (DOMAIN self) \cup (DOMAIN other) |->
     IF a \in DOMAIN self
     THEN (IF a \in DOMAIN other THEN MSUnion(self[a], other[a]) ELSE self[a])
     ELSE other[a]]

\* BlockState::union: every BlockState it can return.
BSUnion(self, other) ==
  IF Aligned(self, other) THEN {Merged(self, other)} ELSE BSUnionAll(self, other)

\* The flattened name -> state map partial_cmp builds: a later key of the
\* iteration overwrites an earlier one.
FlattenO(bs, ord) ==
  [v \in UNION (DOMAIN bs) |->
     bs[ord[CHOOSE i \in 1..Len(ord) :
              v \in ord[i] /\ \A j \in (i+1)..Len(ord) : v \notin ord[j]]]]

\* PartialOrd for BlockState: "Equal", "Less" or "None".
BSPartialCmpO(self, ordS, other, ordO) ==
  IF self = other THEN "Equal"
  ELSE LET sf == FlattenO(self, ordS)
           of == FlattenO(other, ordO)
       IN IF \A v \in DOMAIN sf : v \in DOMAIN of /\ MSLe(sf[v], of[v])
          THEN "Less" ELSE "None"

\* self <= other, for every pair of iteration orders.
BSLe(self, other) ==
  {(BSPartialCmpO(self, ordS, other, ordO) # "None")
   : ordS \in Orders(self), ordO \in Orders(other)}

\* The iteration orders the map bs2 can have after a step that started
\* under order ord: the same order when the step did not write the map, any
\* order when it did (set_tainted removes and inserts a key, which can move
\* it even when the content ends up the same).
AfterO(ord, bs2, written) == IF written THEN Orders(bs2) ELSE {ord}

(***************************************************************************)
(* Function symbols and their classification (known_names.rs).  Symbols    *)
(* are strings, and starts_with, ends_with and contains compare their       *)
(* characters as str does.                                                 *)
(***************************************************************************)
\* utils::demangle_name on the symbols of the model: a mangled Rust symbol
\* becomes its path, any other symbol is returned as it is.
DemangleTable ==
  [s \in {"_ZN5alloc5boxed8into_raw", "_ZN4core3mem6forget", "_ZN5alloc3vec6as_ptr",
          "_ZN5alloc3vec14from_raw_parts", "_ZN5alloc3vec14into_raw_parts",
          "_ZN5alloc3vec4push", "_ZN3std3ffi5c_str7CString8into_raw",
          "_ZN3std3ffi5c_str7CString8as_c_str", "_ZN5alloc2rc2Rc3new",
          "_ZN4core6result6Result6unwrap", "_ZN5alloc6string6String5deref",
          "_ZN5alloc5slice8into_vec", "_ZN5alloc5alloc15exchange_malloc",
          "_ZN4demo4main", "_ZN4demo4free"} |->
     CASE s = "_ZN5alloc5boxed8into_raw" -> "alloc::boxed::Box<T,A>::into_raw"
       [] s = "_ZN4core3mem6forget" -> "core::mem::forget"
       [] s = "_ZN5alloc3vec6as_ptr" -> "alloc::vec::Vec<T,A>::as_ptr"
       [] s = "_ZN5alloc3vec14from_raw_parts" -> "alloc::vec::Vec<T,A>::from_raw_parts"
       [] s = "_ZN5alloc3vec14into_raw_parts" -> "alloc::vec::Vec<T,A>::into_raw_parts"
       [] s = "_ZN5alloc3vec4push" -> "alloc::vec::Vec<T,A>::push"
       [] s = "_ZN3std3ffi5c_str7CString8into_raw" -> "std::ffi::c_str::CString::into_raw"
       [] s = "_ZN3std3ffi5c_str7CString8as_c_str" -> "std::ffi::c_str::CString::as_c_str"
       [] s = "_ZN5alloc2rc2Rc3new" -> "alloc::rc::Rc<T>::new"
       [] s = "_ZN4core6result6Result6unwrap" -> "core::result::Result<T,E>::unwrap"
       [] s = "_ZN5alloc6string6String5deref" -> "<alloc::string::String as core::ops::deref::Deref>::deref"
       [] s = "_ZN5alloc5slice8into_vec" -> "alloc::slice::<impl [T]>::into_vec"
       [] s = "_ZN5alloc5alloc15exchange_malloc" -> "alloc::alloc::exchange_malloc"
       [] s = "_ZN4demo4main" -> "demo::main"
       [] s = "_ZN4demo4free" -> "demo::free"]

demangle_name(s) == IF s \in DOMAIN DemangleTable THEN DemangleTable[s] ELSE s

\* str::starts_with, str::ends_with and str::contains
starts_with(s, pat) == Len(pat) <= Len(s) /\ SubSeq(s, 1, Len(pat)) = pat
ends_with(s, pat) ==
  Len(pat) <= Len(s) /\ SubSeq(s, Len(s) - Len(pat) + 1, Len(s)) = pat
contains(s, pat) ==
  \E i \in 0..(Len(s) - Len(pat)) : SubSeq(s, i + 1, i + Len(pat)) = pat

\* KnownNames::default
alloc_sources ==
  {"alloc::alloc::exchange_malloc", "__rust_alloc", "__rust_realloc",
   "__rust_alloc_zeroed", "<alloc::alloc::Global as core::alloc::AllocRef>::alloc"}
free_sinks == {"free", "free_rbox_raw"}
should_ignore_list == {"llvm.dbg", "__rust_dealloc", "lang_start_internal"}

is_alloc_source(func_name) == demangle_name(func_name) \in alloc_sources
is_free_sink(func_name) == demangle_name(func_name) \in free_sinks
should_ignore(func_name) == \E ig \in should_ignore_list : contains(func_name, ig)

\* KnownNames::get_intrinsic ("None" when the name is no intrinsic)
get_intrinsic(func_name) ==
  IF starts_with(func_name, "llvm.memcpy") THEN "Memcpy"
  ELSE IF ends_with(func_name, "into_vec") THEN "IntoVec"
  ELSE IF ends_with(func_name, "::deref_mut") \/ ends_with(func_name, "::deref") THEN "Deref"
  ELSE IF func_name = "alloc::rc::Rc<T>::new" THEN "RcNew"
  ELSE IF func_name = "core::result::Result<T,E>::unwrap" THEN "Unwrap"
  ELSE IF func_name = "std::ffi::c_str::CString::into_raw" THEN "CStringIntoRaw"
  ELSE IF func_name = "std::ffi::c_str::CString::as_c_str"
          \/ func_name = "std::ffi::c_str::CString::as_bytes"
          \/ func_name = "std::ffi::c_str::CString::as_bytes_with_nul" THEN "CStringAsCStr"
  ELSE IF func_name = "alloc::boxed::Box<T,A>::into_raw" THEN "BoxIntoRaw"
  ELSE IF func_name = "core::mem::forget" THEN "Forget"
  ELSE IF func_name = "alloc::vec::Vec<T,A>::into_raw_parts"
          \/ func_name = "alloc::vec::Vec<T,A>::into_raw_parts_with_alloc" THEN "VecIntoRawParts"
  ELSE IF func_name = "alloc::vec::Vec<T,A>::as_mut_ptr"
          \/ func_name = "alloc::vec::Vec<T,A>::as_ptr"
          \/ func_name = "alloc::vec::Vec<T,A>::as_mut_slice"
          \/ func_name = "alloc::vec::Vec<T,A>::as_slice" THEN "VecAsPtr"
  ELSE IF ends_with(func_name, "from_raw_parts")
          \/ ends_with(func_name, "from_raw_parts_mut") THEN "VecFromRawParts"
  ELSE IF func_name = "alloc::vec::Vec<T,A>::push" THEN "VecPush"
  ELSE "None"

\* KnownNames::get_type: the KnownNameType, an intrinsic as <<"Intrinsic", kind>>.
get_type(func_name) ==
  IF is_alloc_source(func_name) THEN <<"AllocSource">>
  ELSE IF is_free_sink(func_name) THEN <<"FreeSink">>
  ELSE IF should_ignore(func_name) THEN <<"Ignore">>
  ELSE IF get_intrinsic(func_name) # "None" THEN <<"Intrinsic", get_intrinsic(func_name)>>
  ELSE <<"Normal">>

\* BlockVisitor::is_ffi_function and BlockVisitor::get_function_type
is_ffi_function(ffi_functions, func_name) == func_name \in ffi_functions
get_function_type(ffi_functions, func_name) ==
  IF is_ffi_function(ffi_functions, func_name) THEN <<"FFISink">>
  ELSE get_type(demangle_name(func_name))

(***************************************************************************)
(* Operands and diagnoses.                                                 *)
(***************************************************************************)
\* Option<Name>::None, and the two kinds of operand the visitor tells apart.
NoName == Txt(<<>>)
Loc(name) == [local |-> TRUE, name |-> name]
Const == [local |-> FALSE, name |-> NoName]

\* Diagnosis { seriousness, bug_info: BugInfo { ffi_known, possible_bugs, msg }, function_name }
Diagnosis(seriousness, ffi_known, possible_bugs, msg, function_name) ==
  [seriousness |-> seriousness, ffi_known |-> ffi_known,
   possible_bugs |-> possible_bugs, msg |-> msg, function_name |-> function_name]

\* The message of a BugInfo: its text and what format! puts into it.
Msg(text, func_name, arg, st) ==
  [text |-> text, func |-> func_name, arg |-> arg, state |-> st]

\* An outcome of a handler: the BlockState it leaves, the diagnoses it
\* generates, and whether it panicked (a failed assert!, an index out of range).
Outcome(state, diags) == [panic |-> FALSE, state |-> state, diags |-> diags]
Panic(state) == [panic |-> TRUE, state |-> state, diags |-> {}]
Plain(states) == {Outcome(st, {}) : st \in states}

(***************************************************************************)
(* BlockVisitor::handle_intrinsic                                          *)
(***************************************************************************)
\* set_tainted(name, level) whatever the state, then propagate_taint.
EscalateAlways(bs, name, level, dest) ==
  UNION {LET esc == SetTaintedO(bs, ord, name, level)
         IN IF dest = NoName THEN {esc}
            ELSE {PropagateTaintO(esc, o2, name, dest) : o2 \in AfterO(ord, esc, TRUE)}
         : ord \in Orders(bs)}

\* "if get_memory_state(name) < level { set_tainted(name, level) }"
\* followed by "propagate_taint(name, dest)" when dest is given.
EscalateAndPropagate(bs, name, level, dest) ==
  UNION {LET written == MSLt(GetMemoryStateO(bs, ord, name), level)
             esc == IF written THEN SetTaintedO(bs, ord, name, level) ELSE bs
         IN IF dest = NoName THEN {esc}
            ELSE {PropagateTaintO(esc, o2, name, dest) : o2 \in AfterO(ord, esc, written)}
         : ord \in Orders(bs)}

\* propagate_taint alone, a Forgotten arg0 left as it is.
PropagateOnly(bs, name, dest) ==
  IF dest = NoName THEN {bs} ELSE PropagateTaint(bs, name, dest)

\* VecFromRawParts: a Forgotten arg0 is set back to Tainted, then propagated.
ResetAndPropagate(bs, name, dest) ==
  UNION {LET written == GetMemoryStateO(bs, ord, name) = "Forgotten"
             rst == IF written THEN SetTaintedO(bs, ord, name, "Tainted") ELSE bs
         IN IF dest = NoName THEN {rst}
            ELSE {PropagateTaintO(rst, o2, name, dest) : o2 \in AfterO(ord, rst, written)}
         : ord \in Orders(bs)}

handle_intrinsic(bs, intrinsic, arguments, dest) ==
  LET n == Len(arguments)
      PropFirstToDest ==
        IF arguments[1].local THEN Plain(PropagateTaint(bs, arguments[1].name, dest))
        ELSE Plain({bs})
      PropSecondToFirst ==
        IF arguments[1].local /\ arguments[2].local
        THEN Plain(PropagateTaint(bs, arguments[2].name, arguments[1].name))
        ELSE Plain({bs})
  IN CASE intrinsic = "Memcpy" ->
            IF n # 4 \/ dest # NoName THEN {Panic(bs)} ELSE PropSecondToFirst
       [] intrinsic = "IntoVec" ->
            IF n < 2 THEN {Panic(bs)} ELSE PropSecondToFirst
       [] intrinsic = "Deref" ->
            IF dest = NoName \/ n < 1 THEN {Panic(bs)} ELSE PropFirstToDest
       [] intrinsic = "RcNew" ->
            IF n # 1 \/ dest = NoName THEN {Panic(bs)} ELSE PropFirstToDest
       [] intrinsic = "Unwrap" ->
            IF dest # NoName THEN
              (IF n < 1 THEN {Panic(bs)} ELSE PropFirstToDest)
            ELSE Plain({bs})
       [] intrinsic = "CStringIntoRaw" ->
            IF n # 2 \/ dest = NoName THEN {Panic(bs)}
            ELSE IF arguments[1].local
            THEN Plain(EscalateAndPropagate(bs, arguments[1].name, "Forgotten", dest))
            ELSE Plain({bs})
       [] intrinsic = "CStringAsCStr" ->
            IF n < 1 \/ dest = NoName THEN {Panic(bs)}
            ELSE IF arguments[1].local
            THEN Plain(EscalateAndPropagate(bs, arguments[1].name, "Borrowed", dest))
            ELSE Plain({bs})
       [] intrinsic = "Forget" ->
            IF n >= 1 /\ arguments[1].local
            THEN Plain(EscalateAndPropagate(bs, arguments[1].name, "Forgotten", dest))
            ELSE Plain({bs})
       [] intrinsic = "BoxIntoRaw" ->
            IF dest = NoName \/ n < 1 THEN {Panic(bs)}
            ELSE IF arguments[1].local
            THEN Plain(EscalateAndPropagate(bs, arguments[1].name, "Forgotten", dest))
            ELSE Plain({bs})
       [] intrinsic = "VecIntoRawParts" ->
            IF n # 2 \/ dest # NoName THEN {Panic(bs)}
            ELSE IF arguments[2].local
            THEN Plain(EscalateAndPropagate(bs, arguments[2].name, "Forgotten", NoName))
            ELSE Plain({bs})
       [] intrinsic = "VecAsPtr" ->
            IF n < 1 \/ dest = NoName THEN {Panic(bs)}
            ELSE IF arguments[1].local
            THEN Plain(EscalateAndPropagate(bs, arguments[1].name, "Borrowed", dest))
            ELSE Plain({bs})
       [] intrinsic = "VecFromRawParts" ->
            IF n < 1 THEN {Panic(bs)}
            ELSE IF arguments[1].local
            THEN Plain(ResetAndPropagate(bs, arguments[1].name, dest))
            ELSE Plain({bs})
       [] intrinsic = "VecPush" ->
            IF n < 2 THEN {Panic(bs)} ELSE PropSecondToFirst

(***************************************************************************)
(* The sinks of BlockVisitor::analyze_function and the function-pointer    *)
(* case of analyze_call / analyze_invoke.  Each reads the unmodified       *)
(* BlockState, so one iteration order serves a whole argument list.        *)
(***************************************************************************)
LocalArgs(arguments) == {i \in 1..Len(arguments) : arguments[i].local}

\* FFISink, LLVM IR unknown: one diagnosis per argument, by its state.
FFIUnknownDiag(st, func_name, fname) ==
  CASE st = "Unknown" ->
         {Diagnosis("Medium", FALSE, <<"MemoryLeakage">>,
                    Msg("FFI is unknown, argument is in state", func_name, NoName, "Unknown"), fname)}
    [] st = "Borrowed" ->
         {Diagnosis("Low", FALSE, <<"UseAfterFree">>,
                    Msg("FFI is unknown, argument is in state", func_name, NoName, "Borrowed"), fname)}
    [] st = "Forgotten" ->
         {Diagnosis("Medium", FALSE, <<"MemoryLeakage">>,
                    Msg("FFI is unknown, argument is in state", func_name, NoName, "Forgotten"), fname)}
    [] st = "Tainted" ->
         {Diagnosis("Low", FALSE, <<"MemoryLeakage">>,
                    Msg("FFI is unknown, argument is in state", func_name, NoName, "Tainted"), fname)}
    [] OTHER -> {}

FFIUnknownSink(bs, func_name, arguments, fname) ==
  {Outcome(bs, UNION {FFIUnknownDiag(GetMemoryStateO(bs, ord, arguments[i].name),
                                     func_name, fname) : i \in LocalArgs(arguments)})
   : ord \in Orders(bs)}

\* The check after a known FFI with the arm for Tainted that the source
\* has commented out.
FFIKnownDiagTainted(st, func_name, name, fname) ==
  CASE st = "Unknown" ->
         {Diagnosis("Medium", TRUE, <<"MemoryLeakage">>,
                    Msg("After FFI finishes, argument is still in state", func_name, name, "Unknown"), fname)}
    [] st = "Forgotten" ->
         {Diagnosis("Medium", TRUE, <<"MemoryLeakage">>,
                    Msg("After FFI finishes, argument is still in state", func_name, name, "Forgotten"), fname)}
    [] st = "Tainted" ->
         {Diagnosis("Low", TRUE, <<"MemoryLeakage">>,
                    Msg("After FFI finishes, argument is still in state", func_name, name, "Tainted"), fname)}
    [] OTHER -> {}

\* FFISink, LLVM IR known: after the callee was analyzed, one diagnosis per
\* argument still Unknown or Forgotten.
FFIKnownDiag(st, func_name, name, fname) ==
  CASE st = "Unknown" ->
         {Diagnosis("Medium", TRUE, <<"MemoryLeakage">>,
                    Msg("After FFI finishes, argument is still in state", func_name, name, "Unknown"), fname)}
    [] st = "Forgotten" ->
         {Diagnosis("Medium", TRUE, <<"MemoryLeakage">>,
                    Msg("After FFI finishes, argument is still in state", func_name, name, "Forgotten"), fname)}
    [] OTHER -> {}

FFIKnownCheck(bs, func_name, arguments, fname) ==
  {UNION {FFIKnownDiag(GetMemoryStateO(bs, ord, arguments[i].name), func_name,
                       arguments[i].name, fname) : i \in LocalArgs(arguments)}
   : ord \in Orders(bs)}

\* FreeSink
FreeSink(bs, arguments, fname) ==
  {Outcome(bs, IF \E i \in LocalArgs(arguments) : IsTaintedO(bs, ord, arguments[i].name)
               THEN {Diagnosis("High", TRUE, <<"UseAfterFree", "DoubleFree">>,
                               Msg("Taint source meets taint sink.", "", NoName, ""), fname)}
               ELSE {})
   : ord \in Orders(bs)}

\* The function-pointer case with the Unknown arm of the FFI case, which
\* lists MemoryLeakage alone.
FnPtrDiagAsFFI(st, fname) ==
  CASE st = "Tainted" ->
         {Diagnosis("Low", FALSE, <<"UseAfterFree">>,
                    Msg("Call by function pointer, argument is", "", NoName, "Tainted"), fname)}
    [] st = "Borrowed" ->
         {Diagnosis("Low", FALSE, <<"UseAfterFree">>,
                    Msg("Call by function pointer, argument is", "", NoName, "Borrowed"), fname)}
    [] st = "Forgotten" ->
         {Diagnosis("Medium", FALSE, <<"MemoryLeakage">>,
                    Msg("Call by function pointer, argument is", "", NoName, "Forgotten"), fname)}
    [] st = "Unknown" ->
         {Diagnosis("Medium", FALSE, <<"MemoryLeakage">>,
                    Msg("Call by function pointer, argument is", "", NoName, "Unknown"), fname)}
    [] OTHER -> {}

\* A call through a function pointer.
FnPtrDiag(st, fname) ==
  CASE st = "Tainted" ->
         {Diagnosis("Low", FALSE, <<"UseAfterFree">>,
                    Msg("Call by function pointer, argument is", "", NoName, "Tainted"), fname)}
    [] st = "Borrowed" ->
         {Diagnosis("Low", FALSE, <<"UseAfterFree">>,
                    Msg("Call by function pointer, argument is", "", NoName, "Borrowed"), fname)}
    [] st = "Forgotten" ->
         {Diagnosis("Medium", FALSE, <<"MemoryLeakage">>,
                    Msg("Call by function pointer, argument is", "", NoName, "Forgotten"), fname)}
    [] st = "Unknown" ->
         {Diagnosis("Medium", FALSE, <<"UseAfterFree", "MemoryLeakage">>,
                    Msg("Call by function pointer, argument is", "", NoName, "Unknown"), fname)}
    [] OTHER -> {}

FnPtrSink(bs, arguments, fname) ==
  {Outcome(bs, UNION {FnPtrDiag(GetMemoryStateO(bs, ord, arguments[i].name), fname)
                      : i \in LocalArgs(arguments)})
   : ord \in Orders(bs)}

(***************************************************************************)
(* BlockVisitor::analyze_instruction for the instructions that are not     *)
(* calls: every BlockState the transfer function can leave.                *)
(***************************************************************************)
PropagatingOps ==
  {"load", "bitcast", "getelementptr", "trunc", "zext", "sext", "ptrtoint",
   "inttoptr", "addrspacecast", "extractelement", "extractvalue"}

\* analyze_phi: the first tainted incoming value sets dest, and the
\* statement after the loop then sets dest to Untainted.
analyze_phi(bs, incoming, dest) ==
  UNION {LET hits == {i \in 1..Len(incoming) :
                        incoming[i].local /\ IsTaintedO(bs, ord, incoming[i].name)}
             first == CHOOSE i \in hits : \A j \in hits : i <= j
             bs1 == IF hits = {} THEN bs
                    ELSE SetTaintedO(bs, ord, dest,
                                     GetMemoryStateO(bs, ord, incoming[first].name))
         IN UNION {{SetTaintedO(bs1, o2, dest, "Untainted")} : o2 \in AfterO(ord, bs1, hits # {})}
         : ord \in Orders(bs)}

\* analyze_shufflevector
analyze_shufflevector(bs, operand0, operand1, dest) ==
  IF operand0.local /\ operand1.local THEN
    {IF IsTaintedO(bs, ord, operand0.name) \/ IsTaintedO(bs, ord, operand1.name)
     THEN SetTaintedO(bs, ord, dest,
                      MSUnion(GetMemoryStateO(bs, ord, operand0.name),
                              GetMemoryStateO(bs, ord, operand1.name)))
     ELSE SetTaintedO(bs, ord, dest, "Untainted")
     : ord \in Orders(bs)}
  ELSE {bs}

\* analyze_insertelement and analyze_insertvalue
analyze_insert(bs, element, dest) ==
  IF element.local
  THEN {SetTaintedO(bs, ord, dest, GetMemoryStateO(bs, ord, element.name))
        : ord \in Orders(bs)}
  ELSE {bs}

analyze_instruction(bs, instr) ==
  CASE instr.op \in PropagatingOps ->
         IF instr.operand.local THEN PropagateTaint(bs, instr.operand.name, instr.dest)
         ELSE {bs}
    [] instr.op = "store" ->
         IF instr.address.local /\ instr.value.local
         THEN PropagateTaint(bs, instr.value.name, instr.address.name)
         ELSE {bs}
    [] instr.op \in {"insertelement", "insertvalue"} ->
         analyze_insert(bs, instr.element, instr.dest)
    [] instr.op = "shufflevector" ->
         analyze_shufflevector(bs, instr.operand0, instr.operand1, instr.dest)
    [] instr.op = "phi" -> analyze_phi(bs, instr.incoming, instr.dest)
    [] instr.op = "alloca" ->
         IF instr.heap_type THEN SetTainted(bs, instr.dest, "Tainted") ELSE {bs}
    [] OTHER -> {bs}

\* analyze_ret: the new ret_state of the FuncAnalysis.
analyze_ret(bs, term, ret_state) ==
  IF term.has_operand /\ term.operand.local
  THEN {GetMemoryStateO(bs, ord, term.operand.name) : ord \in Orders(bs)}
  ELSE {ret_state}

(***************************************************************************)
(* Functions and their control-flow graph.  A function is                  *)
(* [name, parameters, basic_blocks]; a block is [name, instrs, term]; a    *)
(* terminator lists in `dests` the labels it can branch to.                *)
(***************************************************************************)
RECURSIVE Dedup(_)
Dedup(seq) ==
  IF seq = <<>> THEN <<>>
  ELSE LET rest == Dedup(SubSeq(seq, 1, Len(seq) - 1))
           x == seq[Len(seq)]
       IN IF \E i \in 1..Len(rest) : rest[i] = x THEN rest ELSE Append(rest, x)

BlockIndex(function, bname) ==
  CHOOSE i \in 1..Len(function.basic_blocks) : function.basic_blocks[i].name = bname
BlockByName(function, bname) == function.basic_blocks[BlockIndex(function, bname)]

\* FuncAnalysis::get_successors: the CFG successors that are blocks.
get_successors(function, bname) == Dedup(BlockByName(function, bname).term.dests)

\* cfg.preds: the blocks with an edge to bname, in the order the edges were added.
PredsFrom(function, bname, i) ==
  LET hits == SelectSeq(SubSeq(function.basic_blocks, i, Len(function.basic_blocks)),
                        LAMBDA b : \E k \in 1..Len(b.term.dests) : b.term.dests[k] = bname)
  IN [k \in 1..Len(hits) |-> hits[k].name]
Preds(function, bname) == PredsFrom(function, bname, 1)

\* The join of the recorded states of a list of blocks, as the loops of
\* get_state_from_predecessors and get_state_after_call compute it.
RECURSIVE JoinBlocks(_, _, _)
JoinBlocks(res, names, taint_domain) ==
  IF names = <<>> THEN {res}
  ELSE IF Head(names) \in DOMAIN taint_domain
  THEN UNION {JoinBlocks(r, Tail(names), taint_domain)
              : r \in BSUnion(res, taint_domain[Head(names)])}
  ELSE JoinBlocks(res, Tail(names), taint_domain)

\* FuncAnalysis::get_state_from_predecessors
get_state_from_predecessors(function, taint_domain, bname) ==
  JoinBlocks(EmptyState, Preds(function, bname), taint_domain)

RetBlocksFrom(function, i) ==
  LET hits == SelectSeq(SubSeq(function.basic_blocks, i, Len(function.basic_blocks)),
                        LAMBDA b : b.term.op = "ret")
  IN [k \in 1..Len(hits) |-> hits[k].name]

\* FuncAnalysis::get_state_after_call
get_state_after_call(function, taint_domain) ==
  JoinBlocks(EmptyState, RetBlocksFrom(function, 1), taint_domain)

(***************************************************************************)
(* BlockVisitor::analyze_normal_function and get_function_summary: the     *)
(* summary key, the callee's initial state and the effect of a summary on  *)
(* the caller.                                                             *)
(***************************************************************************)
Min(a, b) == IF a <= b THEN a ELSE b

\* The Vec<Option<MemoryState>> of a call: "None" for a non-local argument.
InitVectorO(bs, ord, arguments) ==
  [i \in 1..Len(arguments) |->
     IF arguments[i].local THEN GetMemoryStateO(bs, ord, arguments[i].name) ELSE "None"]

\* get_function_summary, the loop that installs the argument states on the
\* formal parameters (zip stops at the shorter list).
RECURSIVE BuildInitFrom(_, _, _, _)
BuildInitFrom(init_state, init, parameters, i) ==
  IF i > Min(Len(init), Len(parameters)) THEN {init_state}
  ELSE IF init[i] = "None" THEN BuildInitFrom(init_state, init, parameters, i + 1)
  ELSE UNION {BuildInitFrom(st, init, parameters, i + 1)
              : st \in SetTainted(init_state, parameters[i], init[i])}
BuildInitState(init, parameters) == BuildInitFrom(EmptyState, init, parameters, 1)

\* analyze_normal_function, the loop "Update variables that are passed to
\* the function"; ordE is the iteration order of end_state.
RECURSIVE ApplyArgsFrom(_, _, _, _, _, _)
ApplyArgsFrom(bs, arguments, parameters, end_state, ordE, i) ==
  IF i > Min(Len(arguments), Len(parameters)) THEN {bs}
  ELSE IF ~arguments[i].local
  THEN ApplyArgsFrom(bs, arguments, parameters, end_state, ordE, i + 1)
  ELSE UNION {ApplyArgsFrom(st, arguments, parameters, end_state, ordE, i + 1)
              : st \in SetTainted(bs, arguments[i].name,
                                  GetMemoryStateO(end_state, ordE, parameters[i]))}

\* The summary applied without the write of ret_state to the destination.
ApplySummaryArgsOnly(bs, arguments, dest, parameters, end_state, ret_state) ==
  UNION {ApplyArgsFrom(bs, arguments, parameters, end_state, ordE, 1)
         : ordE \in Orders(end_state)}

\* analyze_normal_function once the summary (end_state, ret_state) is at hand.
ApplySummary(bs, arguments, dest, parameters, end_state, ret_state) ==
  UNION {ApplyArgsFrom(st, arguments, parameters, end_state, ordE, 1)
         : st \in (IF dest # NoName THEN SetTainted(bs, dest, ret_state) ELSE {bs}),
           ordE \in Orders(end_state)}

\* SummaryCache::insert and SummaryCache::get (a HashMap: insert overwrites).
CacheInsert(cache, key, summary) ==
  [k \in (DOMAIN cache) \cup {key} |-> IF k = key THEN summary ELSE cache[k]]
CacheHas(cache, key) == key \in DOMAIN cache

\* taint_analysis.rs
MAX_ITERATION == 200
MAX_DEPTH == 20

(***************************************************************************)
(* Programs under analysis: the LLVM functions of GlobalContext.functions, *)
(* AnalysisOption.entry_points and AnalysisOption.ffi_functions.           *)
(***************************************************************************)
\* Number of seeded pointer arguments of the call under test.
NArgs == 2

Global(sym) == [kind |-> "global", name |-> sym]
FnPtr == [kind |-> "fnptr", name |-> ""]
Call(callee, arguments, dest) ==
  [op |-> "call", callee |-> callee, arguments |-> arguments, dest |-> dest]
Invoke(callee, arguments, result, return_label, exception_label) ==
  [op |-> "invoke", callee |-> callee, arguments |-> arguments, result |-> result,
   dests |-> <<return_label, exception_label>>]
RetVoid == [op |-> "ret", has_operand |-> FALSE, operand |-> Const, dests |-> <<>>]
Ret(operand) == [op |-> "ret", has_operand |-> TRUE, operand |-> operand, dests |-> <<>>]
Br(label) == [op |-> "br", dests |-> <<label>>]
CondBr(true_dest, false_dest) == [op |-> "condbr", dests |-> <<true_dest, false_dest>>]
Resume == [op |-> "resume", dests |-> <<>>]
BitCast(operand, dest) == [op |-> "bitcast", operand |-> operand, dest |-> dest]
Store(value, address) == [op |-> "store", value |-> value, address |-> address]
InsertValue(element, dest) == [op |-> "insertvalue", element |-> element, dest |-> dest]
InsertElement(element, dest) == [op |-> "insertelement", element |-> element, dest |-> dest]
ShuffleVector(operand0, operand1, dest) ==
  [op |-> "shufflevector", operand0 |-> operand0, operand1 |-> operand1, dest |-> dest]
Phi(incoming, dest) == [op |-> "phi", incoming |-> incoming, dest |-> dest]
Alloca(heap_type, dest) == [op |-> "alloca", heap_type |-> heap_type, dest |-> dest]
Block(name, instrs, term) == [name |-> name, instrs |-> instrs, term |-> term]
Function(name, parameters, basic_blocks) ==
  [name |-> name, parameters |-> parameters, basic_blocks |-> basic_blocks]
Alloc(dest) == Call(Global("__rust_alloc"), <<Const, Const>>, dest)

\* The instructions that bring argument i of the call under test into
\* each MemoryState.
SeedKinds == {"none", "alloc", "as_ptr", "forget", "into_raw", "unknown"}
Seed(kind, i) ==
  CASE kind = "alloc" -> <<Alloc(Num(i))>>
    [] kind = "as_ptr" ->
         <<Alloc(Num(10 + i)),
           Call(Global("_ZN5alloc3vec6as_ptr"), <<Loc(Num(10 + i))>>, Num(i))>>
    [] kind = "forget" ->
         <<Alloc(Num(i)), Call(Global("_ZN4core3mem6forget"), <<Loc(Num(i))>>, NoName)>>
    [] kind = "into_raw" ->
         <<Alloc(Num(10 + i)),
           Call(Global("_ZN5alloc5boxed8into_raw"), <<Loc(Num(10 + i))>>, Num(i))>>
    [] kind = "forget_none" ->
         <<Call(Global("_ZN4core3mem6forget"), <<Loc(Num(i))>>, NoName)>>
    [] kind = "unknown" ->
         <<Alloc(Num(20 + i)),
           Call(Global("_ZN5alloc3vec6as_ptr"), <<Loc(Num(20 + i))>>, Num(10 + i)),
           Alloc(Num(30 + i)),
           Call(Global("_ZN4core3mem6forget"), <<Loc(Num(30 + i))>>, NoName),
           ShuffleVector(Loc(Num(10 + i)), Loc(Num(30 + i)), Num(i))>>
    [] OTHER -> <<>>

RECURSIVE Seeds(_, _)
Seeds(kinds, i) ==
  IF i > Len(kinds) THEN <<>> ELSE Seed(kinds[i], i) \o Seeds(kinds, i + 1)

\* One function main: the seeds, then the call under test as a call
\* instruction or as an invoke terminator.
MainWith(instrs, callee, arguments, dest, inv) ==
  IF inv
  THEN Function("_ZN4demo4main", <<>>,
         <<Block("bb0", instrs, Invoke(callee, arguments, Num(9), "bb1", "bb2")),
           Block("bb1", <<>>, RetVoid),
           Block("bb2", <<>>, Resume)>>)
  ELSE Function("_ZN4demo4main", <<>>,
         <<Block("bb0", Append(instrs, Call(callee, arguments, dest)), RetVoid)>>)

\* GlobalContext::new: functions.insert(func.name, func) for every function
\* read, so of two functions with one name the one read last is kept.
Program(fns, entry_points, ffi_functions) ==
  [functions |-> [f \in {fns[i].name : i \in 1..Len(fns)} |->
                    fns[CHOOSE i \in 1..Len(fns) :
                          /\ fns[i].name = f
                          /\ \A j \in 1..Len(fns) : fns[j].name = f => j <= i]],
   entry_points |-> entry_points, ffi_functions |-> ffi_functions]

RECURSIVE SeqsOver(_, _)
SeqsOver(S, n) ==
  IF n = 0 THEN {<<>>} ELSE {Append(q, x) : q \in SeqsOver(S, n - 1), x \in S}

\* A program of the model: its family, the seeds of main, the callee (or
\* the body of the callee, or the name of a fixed program) and the call.
Input(fam, seeds, callee, inv, arguments, dest) ==
  [fam |-> fam, seeds |-> seeds, callee |-> callee, inv |-> inv,
   arguments |-> arguments, dest |-> dest]

P0 == Txt(<<"p">>)
Q0 == Txt(<<"q">>)

\* Family "sink": main seeds its arguments and passes them, with a
\* constant, to a callee of each kind.
SinkCallees == {"free", "free_ffi", "c_func", "c_known", "fnptr", "dealloc", "demo_free"}
SinkCallee(c) ==
  CASE c = "free" -> Global("free")
    [] c = "free_ffi" -> Global("free")
    [] c = "c_func" -> Global("c_func")
    [] c = "c_known" -> Global("c_known")
    [] c = "fnptr" -> FnPtr
    [] c = "dealloc" -> Global("__rust_dealloc")
    [] c = "demo_free" -> Global("_ZN4demo4free")
SinkFFI(c) ==
  CASE c = "free_ffi" -> {"free"}
    [] c = "c_func" -> {"c_func"}
    [] c = "c_known" -> {"c_known"}
    [] OTHER -> {}
CKnown ==
  Function("c_known", <<P0, Q0>>,
    <<Block("entry", <<Call(Global("free"), <<Loc(P0)>>, NoName)>>, RetVoid)>>)
SinkArgs == [i \in 1..(NArgs + 1) |-> IF i <= NArgs THEN Loc(Num(i)) ELSE Const]
SinkProgram(d) ==
  Program(<<MainWith(Seeds(d.seeds, 1), SinkCallee(d.callee), SinkArgs, NoName, d.inv)>>
            \o (IF d.callee = "c_known" THEN <<CKnown>> ELSE <<>>),
          <<"main">>, SinkFFI(d.callee))
SinkInputs ==
  {Input("sink", sd, c, iv, SinkArgs, NoName)
   : sd \in SeqsOver(SeedKinds, NArgs), c \in SinkCallees, iv \in BOOLEAN}

\* Family "norm": main calls the defined function g with every choice
\* of arguments (repeated and aliased ones included) and of destination.
NormSeedKinds == {"none", "alloc", "into_raw"}
NormOperands == {Loc(Num(1)), Loc(Num(2)), Loc(Num(11)), Const}
NormDests == {NoName, Num(1), Num(3)}
NormBodies == {"forget_p", "forget_p_ret_q"}
G(body) ==
  IF body = "forget_p"
  THEN Function("g", <<P0, Q0>>,
         <<Block("entry", <<Call(Global("_ZN4core3mem6forget"), <<Loc(P0)>>, NoName)>>,
                 RetVoid)>>)
  ELSE Function("g", <<P0, Q0>>,
         <<Block("entry", <<Call(Global("_ZN4core3mem6forget"), <<Loc(P0)>>, NoName),
                            BitCast(Loc(Q0), Num(0))>>, Ret(Loc(Num(0))))>>)
NormProgram(d) ==
  Program(<<MainWith(Seeds(d.seeds, 1), Global("g"), d.arguments, d.dest, FALSE),
            G(d.callee)>>, <<"main">>, {})
NormInputs ==
  {Input("norm", sd, b, FALSE, a, dt)
   : sd \in SeqsOver(NormSeedKinds, NArgs), a \in SeqsOver(NormOperands, NArgs),
     dt \in NormDests, b \in NormBodies}

\* Family "intr": main seeds %1 and %2 and passes them to an intrinsic,
\* with and without a destination.
IntrSeedKinds == SeedKinds \cup {"forget_none"}
IntrCallees ==
  {"_ZN4core3mem6forget", "_ZN5alloc5boxed8into_raw", "_ZN3std3ffi5c_str7CString8into_raw",
   "_ZN5alloc3vec14into_raw_parts", "_ZN5alloc3vec6as_ptr",
   "_ZN3std3ffi5c_str7CString8as_c_str", "_ZN5alloc3vec14from_raw_parts"}
IntrArgs == <<Loc(Num(1)), Loc(Num(2))>>
IntrDests == {NoName, Num(3)}
IntrProgram(d) ==
  Program(<<MainWith(Seeds(d.seeds, 1), Global(d.callee), d.arguments, d.dest, d.inv)>>,
          <<"main">>, {})
\* The same intrinsics reached through an invoke terminator; the calls they
\* are compared with are those without a destination.
IntrInvokeInputs ==
  {Input("intr", <<s1, s2>>, c, TRUE, IntrArgs, NoName)
   : s1 \in IntrSeedKinds, s2 \in IntrSeedKinds, c \in IntrCallees}
\* Unwrap and Forget with zero, one and two arguments.
ArityCallees == {"_ZN4core3mem6forget", "_ZN4core6result6Result6unwrap"}
ArityArgs == {<<>>, <<Loc(Num(1))>>, IntrArgs}
ArityInputs ==
  {Input("intr", <<s1, "none">>, c, FALSE, arguments, dt)
   : s1 \in IntrSeedKinds, c \in ArityCallees, arguments \in ArityArgs, dt \in IntrDests}
IntrInputs ==
  {Input("intr", <<s1, s2>>, c, FALSE, IntrArgs, dt)
   : s1 \in IntrSeedKinds, s2 \in IntrSeedKinds, c \in IntrCallees, dt \in IntrDests}
  \cup IntrInvokeInputs \cup ArityInputs

\* Family "fixed": programs with loops, recursion and deep call chains.
\* "rec": f calls itself with its own parameter.
RecProgram ==
  Program(<<Function("_ZN4demo4main", <<>>,
              <<Block("bb0", <<Alloc(Num(1)),
                               Call(Global("f"), <<Loc(Num(1))>>, Num(2))>>, RetVoid)>>),
            Function("f", <<P0>>,
              <<Block("entry", <<Call(Global("f"), <<Loc(P0)>>, Num(0))>>, Ret(Loc(P0)))>>)>>,
          <<"main">>, {})

\* "chain": c01 calls c02 ... calls c21, which returns a fresh allocation.
ChainNames ==
  <<"c01", "c02", "c03", "c04", "c05", "c06", "c07", "c08", "c09", "c10", "c11",
    "c12", "c13", "c14", "c15", "c16", "c17", "c18", "c19", "c20", "c21">>
ChainFunction(i) ==
  IF i < Len(ChainNames)
  THEN Function(ChainNames[i], <<>>,
         <<Block("entry", <<Call(Global(ChainNames[i + 1]), <<>>, Num(1))>>,
                 Ret(Loc(Num(1))))>>)
  ELSE Function(ChainNames[i], <<>>,
         <<Block("entry", <<Alloc(Num(1))>>, Ret(Loc(Num(1))))>>)
ChainProgram ==
  Program([i \in 1..Len(ChainNames) |-> ChainFunction(i)], <<"c01">>, {})
\* "many": main calls a function that is one straight line of ManyBlocks
\* blocks: the first allocates %1, the last returns it.
ManyBlocks == 202
BlockName(i) == "b" \o ToString(i)
ManyBlock(i) ==
  Block(BlockName(i), IF i = 1 THEN <<Alloc(Num(1))>> ELSE <<>>,
        IF i < ManyBlocks THEN Br(BlockName(i + 1)) ELSE Ret(Loc(Num(1))))
ManyProgram ==
  Program(<<Function("_ZN4demo4main", <<>>,
              <<Block("bb0", <<Call(Global("many"), <<>>, Num(2))>>, RetVoid)>>),
            Function("many", <<>>, [i \in 1..ManyBlocks |-> ManyBlock(i)])>>,
          <<"main">>, {})

\* "chain2": the same chain with c19 as a second entry point, so that c19 is
\* analyzed both at the end of the chain and directly.
ChainEntryProgram ==
  Program([i \in 1..Len(ChainNames) |-> ChainFunction(i)], <<"c01", "c19">>, {})

\* "osc": a loop in SSA form whose state never settles.  Round by round
\* the phi of bb2 finds 5 alone or in one Allocation with 1, 2 and 4, so the
\* state that reaches bb1 alternates between two incomparable BlockStates.
OscProgram ==
  Program(<<Function("_ZN4demo4main", <<>>,
              <<Block("bb0", <<Alloca(FALSE, Num(1))>>, Br("bb1")),
                Block("bb1", <<Alloc(Num(2)),
                               InsertValue(Loc(Num(1)), Num(3)),
                               BitCast(Loc(Num(2)), Num(4))>>, Br("bb2")),
                Block("bb2", <<Phi(<<Const>>, Num(5)),
                               Store(Loc(Num(4)), Loc(Num(1))),
                               Store(Loc(Num(1)), Loc(Num(5))),
                               Store(Loc(Num(1)), Loc(Num(4))),
                               InsertValue(Loc(Num(3)), Num(6))>>, Br("bb1"))>>)>>,
          <<"main">>, {})

\* "flip": a loop whose worklist drains although the state of bb1 still
\* alternates: the phi of bb1 clears the Allocation that the store built in
\* the round before.
FlipProgram ==
  Program(<<Function("_ZN4demo4main", <<>>,
              <<Block("bb0", <<Alloc(Num(1))>>, Br("bb1")),
                Block("bb1", <<Phi(<<Const>>, Num(2)),
                               Store(Loc(Num(1)), Loc(Num(2)))>>, CondBr("bb1", "bb2")),
                Block("bb2", <<>>, RetVoid)>>)>>,
          <<"main">>, {})

\* "phi": a phi whose only incoming value is a fresh allocation.
PhiProgram ==
  Program(<<Function("_ZN4demo4main", <<>>,
              <<Block("bb0", <<Alloc(Num(1))>>, Br("bb1")),
                Block("bb1", <<Phi(<<Const, Loc(Num(1))>>, Num(2))>>, RetVoid)>>)>>,
          <<"main">>, {})

\* "insert": a loop that inserts the untainted stack slot %5 into the
\* vector %3 and stores the allocation %1 through %3; from the second
\* round on %3 is tainted when the insertelement is reached.  bb3 inserts
\* the allocation itself.
InsertProgram ==
  Program(<<Function("_ZN4demo4main", <<>>,
              <<Block("bb0", <<Alloc(Num(1)), Alloca(FALSE, Num(5))>>, Br("bb1")),
                Block("bb1", <<InsertElement(Loc(Num(5)), Num(3)),
                               Store(Loc(Num(1)), Loc(Num(3)))>>, CondBr("bb1", "bb2")),
                Block("bb2", <<InsertValue(Loc(Num(1)), Num(4))>>, RetVoid)>>)>>,
          <<"main">>, {})

\* "tworet": pick returns a fresh allocation from bb1 and a stack slot
\* from bb2.
TwoRetProgram ==
  Program(<<Function("_ZN4demo4main", <<>>,
              <<Block("bb0", <<Call(Global("pick"), <<>>, Num(1))>>, RetVoid)>>),
            Function("pick", <<>>,
              <<Block("bb0", <<Alloc(Num(1)), Alloca(FALSE, Num(2))>>, CondBr("bb1", "bb2")),
                Block("bb1", <<>>, Ret(Loc(Num(1)))),
                Block("bb2", <<>>, Ret(Loc(Num(2))))>>)>>,
          <<"main">>, {})

\* "loop": a loop that settles; "diamond": two branches that join.
LoopProgram ==
  Program(<<Function("_ZN4demo4main", <<>>,
              <<Block("bb0", <<Alloc(Num(1))>>, Br("bb1")),
                Block("bb1", <<BitCast(Loc(Num(1)), Num(2))>>, CondBr("bb1", "bb2")),
                Block("bb2", <<Call(Global("free"), <<Loc(Num(2))>>, NoName)>>, RetVoid)>>)>>,
          <<"main", "absent">>, {})
DiamondProgram ==
  Program(<<Function("_ZN4demo4main", <<>>,
              <<Block("bb0", <<Alloc(Num(1)), Alloc(Num(2))>>, CondBr("bb1", "bb2")),
                Block("bb1", <<Call(Global("_ZN4core3mem6forget"), <<Loc(Num(1))>>, NoName)>>,
                      Br("bb3")),
                Block("bb2", <<Call(Global("_ZN5alloc3vec6as_ptr"), <<Loc(Num(1))>>, Num(3))>>,
                      Br("bb3")),
                Block("bb3", <<Call(FnPtr, <<Loc(Num(1)), Loc(Num(2))>>, NoName)>>, RetVoid)>>),
            Function("main", <<>>, <<Block("entry", <<>>, RetVoid)>>)>>,
          <<"main">>, {})

\* "memcpy": llvm.memcpy called with a destination, which handle_intrinsic
\* rejects with a failed assert.
MemcpyProgram ==
  Program(<<Function("_ZN4demo4main", <<>>,
              <<Block("bb0", <<Alloc(Num(1)),
                               Call(Global("llvm.memcpy.p0i8.p0i8.i64"),
                                    <<Loc(Num(2)), Loc(Num(1)), Const, Const>>, Num(3))>>,
                      RetVoid)>>)>>,
          <<"main">>, {})

FixedNames ==
  {"rec", "chain", "chain2", "many", "osc", "loop", "diamond", "memcpy", "flip", "tworet", "phi",
   "insert"}
FixedInputs == {Input("fixed", <<>>, id, FALSE, <<>>, NoName) : id \in FixedNames}
FixedProgram(id) ==
  CASE id = "rec" -> RecProgram
    [] id = "chain" -> ChainProgram
    [] id = "chain2" -> ChainEntryProgram
    [] id = "many" -> ManyProgram
    [] id = "osc" -> OscProgram
    [] id = "flip" -> FlipProgram
    [] id = "tworet" -> TwoRetProgram
    [] id = "phi" -> PhiProgram
    [] id = "insert" -> InsertProgram
    [] id = "loop" -> LoopProgram
    [] id = "diamond" -> DiamondProgram
    [] id = "memcpy" -> MemcpyProgram

Inputs == SinkInputs \cup NormInputs \cup IntrInputs \cup FixedInputs
Prog(d) ==
  CASE d.fam = "sink" -> SinkProgram(d)
    [] d.fam = "norm" -> NormProgram(d)
    [] d.fam = "intr" -> IntrProgram(d)
    [] d.fam = "fixed" -> FixedProgram(d.callee)

(***************************************************************************)
(* The analysis as a state machine.  `stack` holds the FuncAnalysis        *)
(* objects that are live, innermost last; a frame's pc tells where its     *)
(* iterate_to_fixpoint stands.                                             *)
(***************************************************************************)
VARIABLES
  input,          \* the program under analysis
  caps,           \* the depth and iteration limits in force
  stack,          \* the live FuncAnalysis frames
  summary_cache,  \* GlobalContext.summary_cache
  diagnoses,      \* GlobalContext.diagnoses
  driver,         \* StaticAnalysis::run: the entry point at hand, the functions done for it
  status,         \* "running", "done" or "panicked"
  results,        \* the taint_domain and ret_state each entry analysis ended with
  capHit,         \* whether a limit has cut the analysis of the entry function at hand short
  last,           \* the step taken last, with the states before and after it
  dom,            \* a BlockState under its public operations, apart from any analysis
  lat,            \* MemoryState values under partial_cmp and union
  out             \* a diagnosis set under output_diagnoses

analysis ==
  <<input, caps, stack, summary_cache, diagnoses, driver, status, results, capHit, last>>
apart == <<dom, lat, out>>
vars == <<analysis, apart>>

NoCall ==
  [sym |-> "", init |-> <<>>, arguments |-> <<>>, dest |-> NoName, ffi |-> FALSE,
   via |-> "call"]
NoSummary == [end_state |-> EmptyState, ret_state |-> "Untainted", parameters |-> <<>>]
NoCallee == [kind |-> "none", name |-> ""]
Event(kind, cls, note, func, pre, post, callee, arguments, dest, diags, summary) ==
  [kind |-> kind, cls |-> cls, note |-> note, func |-> func, pre |-> pre, post |-> post,
   callee |-> callee, arguments |-> arguments, dest |-> dest, diags |-> diags,
   summary |-> summary]
Mark(kind, func) ==
  Event(kind, "", "", func, EmptyState, EmptyState, NoCallee, <<>>, NoName, {}, NoSummary)

EmptyDomain == [b \in {} |-> EmptyState]
EmptyCache == [k \in {} |-> <<EmptyState, "Untainted">>]

\* FuncAnalysis::new / new_with_init, and the locals of iterate_to_fixpoint
\* at its start: old_state a clone of taint_domain, the worklist all blocks.
NewFrame(function, init_state, depth) ==
  [func |-> function.name, init_state |-> init_state, taint_domain |-> EmptyDomain,
   ret_state |-> "Untainted", depth |-> depth, old_state |-> EmptyDomain,
   worklist |-> [i \in 1..Len(function.basic_blocks) |-> function.basic_blocks[i].name],
   iteration |-> 0, visits |-> 0, pc |-> "loop", bb |-> "", idx |-> 0,
   state |-> EmptyState, call |-> NoCall]

\* The depth test with > in place of >=.
DepthAllowedUpTo(depth, cap) == ~(depth > cap)
\* new_with_init: "if depth >= MAX_DEPTH { return None; }"
DepthAllowed(depth, cap) == ~(depth >= cap)
\* The iteration count left as it is.
IterationKept(iteration) == iteration
\* iterate_to_fixpoint: "iteration += 1; if iteration > MAX_ITERATION { break; }"
IterationAfter(iteration) == iteration + 1
IterationExceeded(iteration, cap) == iteration > cap
\* The number of blocks a frame has visited, counted up to MAX_ITERATION + 2.
VisitsAfter(visits) == IF visits > MAX_ITERATION + 1 THEN visits ELSE visits + 1

\* The names and states the BlockState operations are exercised with, and
\* how many operations are applied in a row.
DomNames == {Num(1), Num(2), Txt(<<"a">>), Txt(<<"a", "b">>)}
DomStates == {"Untainted", "Tainted", "Borrowed", "Forgotten"}
MaxOps == 4

\* dom: the BlockState a the operations act on, a second BlockState b to
\* join it with, and the operation applied last with the state before it.
DomOp(a, b, n, joined, kind, var, to, state, pre) ==
  [a |-> a, b |-> b, n |-> n, joined |-> joined, kind |-> kind, var |-> var, to |-> to,
   state |-> state, pre |-> pre]
DomInit ==
  DomOp(EmptyState, EmptyState, 0, FALSE, "default", NoName, NoName, "Untainted", EmptyState)

\* MemoryState on its own: the operands of the last partial_cmp or union,
\* a third state to compare with, and what the call returned.
LatOp(self, other, third, kind, ordering, joined, failed) ==
  [self |-> self, other |-> other, third |-> third, kind |-> kind,
   ordering |-> ordering, joined |-> joined, failed |-> failed]
\* #[derive(PartialOrd)] on Seriousness: Low < Medium < High.
SeriousnessRank(seriousness) ==
  CASE seriousness = "Low" -> 0 [] seriousness = "Medium" -> 1 [] seriousness = "High" -> 2
SeriousnessLe(a, b) == SeriousnessRank(a) <= SeriousnessRank(b)

\* output_diagnoses: the two filters on a diagnosis.
PassesThreshold(diagnosis, threshold) == SeriousnessLe(threshold, diagnosis.seriousness)
FromCrate(diagnosis, crate_names) ==
  \/ \E i \in 1..Len(crate_names) : starts_with(diagnosis.function_name, crate_names[i])
  \/ ~contains(diagnosis.function_name, "::")

\* The test that always lets the later diagnosis replace the stored one.
ReplacesAlways(diagn, diagnosis) == TRUE

\* output_diagnoses: whether diagnosis replaces diagn, stored for the same function.
Replaces(diagn, diagnosis) == SeriousnessLe(diagn.seriousness, diagnosis.seriousness)

\* output_diagnoses: diagnoses_to_issue after the loop over the set in
\* iteration order ord, from position i on.
RECURSIVE IssueFrom(_, _, _, _, _)
IssueFrom(ord, i, threshold, crate_names, to_issue) ==
  IF i > Len(ord) THEN to_issue
  ELSE
    LET diagnosis == ord[i]
        key == diagnosis.function_name
        kept == IF /\ PassesThreshold(diagnosis, threshold)
                   /\ FromCrate(diagnosis, crate_names)
                   /\ (key \in DOMAIN to_issue => Replaces(to_issue[key], diagnosis))
                THEN [k \in (DOMAIN to_issue) \cup {key} |->
                        IF k = key THEN diagnosis ELSE to_issue[k]]
                ELSE to_issue
    IN IssueFrom(ord, i + 1, threshold, crate_names, kept)

NothingIssued == [k \in {} |-> Diagnosis("Low", FALSE, <<>>, "", "")]
output_diagnoses(ord, threshold, crate_names) ==
  IssueFrom(ord, 1, threshold, crate_names, NothingIssued)

\* The diagnosis set on its own: the diagnoses generate_diagnosis may
\* insert, and the options output_diagnoses reads.
MaxDiagnoses == 3
OutFunctions == {"demo::main", "core::mem::forget", "c_func"}
OutDiagnoses ==
  {Diagnosis(seriousness, ffi_known, <<"MemoryLeakage">>, "", function_name) :
     seriousness \in {"Low", "Medium", "High"}, ffi_known \in BOOLEAN,
     function_name \in OutFunctions}
OutThresholds == {"Low", "Medium", "High"}
OutCrateNames == {<<>>, <<"demo">>, <<"demo", "core">>}
OutOp(set, threshold, crate_names, issued, kind) ==
  [diagnoses |-> set, threshold |-> threshold, crate_names |-> crate_names,
   issued |-> issued, kind |-> kind]
OutInit == OutOp({}, "Low", <<>>, NothingIssued, "default")

LatInit == LatOp("Untainted", "Untainted", "Untainted", "default", "Equal", "Untainted", FALSE)

Init ==
  /\ input \in Inputs
  /\ caps = [depth |-> MAX_DEPTH, iteration |-> MAX_ITERATION]
  /\ stack = <<>>
  /\ summary_cache = EmptyCache
  /\ diagnoses = {}
  /\ driver = [entry |-> 1, seen |-> {}]
  /\ status = "running"
  /\ results = EmptyDomain
  /\ capHit = FALSE
  /\ last = Mark("init", "")
  /\ dom = DomInit
  /\ lat = LatInit
  /\ out = OutInit

(***************************************************************************)
(* A call: BlockVisitor::analyze_call / analyze_invoke down to the point   *)
(* where it either completes at once, panics, or needs the callee analyzed.*)
(***************************************************************************)
CallDone(cls, note, state, diags, summary) ==
  [type |-> "done", cls |-> cls, note |-> note, state |-> state, diags |-> diags,
   summary |-> summary, init |-> <<>>, init_state |-> EmptyState]
CallPanic(cls, state) ==
  [type |-> "panic", cls |-> cls, note |-> "", state |-> state, diags |-> {},
   summary |-> NoSummary, init |-> <<>>, init_state |-> EmptyState]
CallDescend(cls, state, init, init_state) ==
  [type |-> "descend", cls |-> cls, note |-> "computed", state |-> state, diags |-> {},
   summary |-> NoSummary, init |-> init, init_state |-> init_state]

\* The check that follows analyze_normal_function for an FFI whose IR is known.
FFIKnownDiags(ffi, bs, sym, arguments, fname) ==
  IF ffi THEN FFIKnownCheck(bs, sym, arguments, fname) ELSE {{}}

\* analyze_normal_function with get_function_summary up to new_with_init.
NormalResults(P, cache, cap, depth, fname, bs, sym, arguments, dest, ffi) ==
  LET cls == IF ffi THEN "FFIKnown" ELSE "Normal" IN
  IF sym \notin DOMAIN P.functions THEN {CallDone(cls, "no_ir", bs, {}, NoSummary)}
  ELSE LET function == P.functions[sym] IN
    UNION {LET init == InitVectorO(bs, ord, arguments)
               key == <<sym, init>>
           IN IF CacheHas(cache, key)
              THEN UNION {{CallDone(cls, "hit", st, dg,
                                    [end_state |-> cache[key][1], ret_state |-> cache[key][2],
                                     parameters |-> function.parameters])
                           : dg \in FFIKnownDiags(ffi, st, sym, arguments, fname)}
                          : st \in ApplySummary(bs, arguments, dest, function.parameters,
                                                cache[key][1], cache[key][2])}
              ELSE IF ~DepthAllowed(depth + 1, cap)
              THEN {CallDone(cls, "skipped", bs, dg, NoSummary)
                    : dg \in FFIKnownDiags(ffi, bs, sym, arguments, fname)}
              ELSE {CallDescend(cls, bs, init, ist)
                    : ist \in BuildInitState(init, function.parameters)}
           : ord \in Orders(bs)}

FromOutcomes(cls, outcomes) ==
  {IF o.panic THEN CallPanic(cls, o.state) ELSE CallDone(cls, "", o.state, o.diags, NoSummary)
   : o \in outcomes}

\* analyze_function: dispatch on get_function_type.
FunctionResults(P, cache, cap, depth, fname, bs, sym, arguments, dest) ==
  LET ty == get_function_type(P.ffi_functions, sym) IN
  CASE ty[1] = "FFISink" ->
         IF sym \in DOMAIN P.functions
         THEN NormalResults(P, cache, cap, depth, fname, bs, sym, arguments, dest, TRUE)
         ELSE FromOutcomes("FFIUnknown", FFIUnknownSink(bs, sym, arguments, fname))
    [] ty[1] = "AllocSource" ->
         FromOutcomes("AllocSource",
                      Plain(IF dest # NoName THEN SetTainted(bs, dest, "Tainted") ELSE {bs}))
    [] ty[1] = "FreeSink" -> FromOutcomes("FreeSink", FreeSink(bs, arguments, fname))
    [] ty[1] = "Intrinsic" ->
         FromOutcomes("Intrinsic", handle_intrinsic(bs, ty[2], arguments, dest))
    [] ty[1] = "Normal" ->
         NormalResults(P, cache, cap, depth, fname, bs, sym, arguments, dest, FALSE)
    [] ty[1] = "Ignore" -> FromOutcomes("Ignore", Plain({bs}))

\* analyze_call and analyze_invoke: by name, through a function pointer, or neither.
CallResults(P, cache, cap, depth, fname, bs, callee, arguments, dest) ==
  IF callee.kind = "global"
  THEN FunctionResults(P, cache, cap, depth, fname, bs, callee.name, arguments, dest)
  ELSE IF callee.kind = "fnptr"
  THEN FromOutcomes("FnPtr", FnPtrSink(bs, arguments, fname))
  ELSE FromOutcomes("None", Plain({bs}))

\* BlockVisitor::analyze as a function of the pre-condition: every
\* post-condition the instructions from position i on can leave.  `open`
\* marks a call that needs a callee analyzed first, or a failed assert.
RECURSIVE AnalyzeFrom(_, _, _, _, _, _, _, _)
AnalyzeFrom(P, cache, cap, depth, fname, items, i, bs) ==
  IF i > Len(items) THEN {[open |-> FALSE, state |-> bs]}
  ELSE LET item == items[i]
           steps ==
             IF item.op \in {"call", "invoke"}
             THEN {[open |-> r.type # "done", state |-> r.state]
                   : r \in CallResults(P, cache, cap, depth, fname, bs, item.callee,
                                       item.arguments,
                                       IF item.op = "invoke" THEN item.result ELSE item.dest)}
             ELSE {[open |-> FALSE, state |-> st] : st \in analyze_instruction(bs, item)}
       IN UNION {IF step.open THEN {step}
                 ELSE AnalyzeFrom(P, cache, cap, depth, fname, items, i + 1, step.state)
                 : step \in steps}
BlockAnalyze(P, cache, cap, depth, fname, block, pre) ==
  AnalyzeFrom(P, cache, cap, depth, fname, Append(block.instrs, block.term), 1, pre)

(***************************************************************************)
(* Actions                                                                 *)
(***************************************************************************)
Top == stack[Len(stack)]
SetTop(frame) == [stack EXCEPT ![Len(stack)] = frame]
CurFunction == Prog(input).functions[Top.func]
CurBlock == BlockByName(CurFunction, Top.bb)
AtTerminator == Top.idx > Len(CurBlock.instrs)

\* The entry functions of the entry point at hand that are still to be analyzed.
EntryMatches ==
  IF driver.entry > Len(Prog(input).entry_points) THEN {}
  ELSE {f \in DOMAIN Prog(input).functions :
          ends_with(demangle_name(f), Prog(input).entry_points[driver.entry])} \ driver.seen

\* StaticAnalysis::run: FuncAnalysis::new for the next matching function.
StartEntry ==
  /\ status = "running" /\ stack = <<>>
  /\ \E f \in EntryMatches :
       /\ stack' = <<NewFrame(Prog(input).functions[f], EmptyState, 1)>>
       /\ driver' = [driver EXCEPT !.seen = @ \cup {f}]
       /\ last' = Mark("start", f)
  /\ capHit' = FALSE
  /\ UNCHANGED <<apart, input, caps, summary_cache, diagnoses, status, results>>

\* StaticAnalysis::run: the inner loop over functions.keys() is exhausted.
NextEntry ==
  /\ status = "running" /\ stack = <<>>
  /\ driver.entry <= Len(Prog(input).entry_points)
  /\ EntryMatches = {}
  /\ driver' = [entry |-> driver.entry + 1, seen |-> {}]
  /\ last' = Mark("next_entry", "")
  /\ UNCHANGED <<apart, input, caps, stack, summary_cache, diagnoses, status, results, capHit>>

\* StaticAnalysis::run returns.
Finish ==
  /\ status = "running" /\ stack = <<>>
  /\ driver.entry > Len(Prog(input).entry_points)
  /\ status' = "done"
  /\ last' = Mark("finish", "")
  /\ UNCHANGED <<apart, input, caps, stack, summary_cache, diagnoses, driver, results, capHit>>

\* iterate_to_fixpoint: worklist.pop_front(), and analyze_basic_block up
\* to the creation of the BlockVisitor with the pre-condition.
PopBlock ==
  /\ status = "running" /\ stack # <<>> /\ Top.pc = "loop"
  /\ LET bb == Head(Top.worklist)
         function == CurFunction
     IN \E pre \in (IF function.basic_blocks[1].name = bb THEN {Top.init_state}
                    ELSE get_state_from_predecessors(function, Top.taint_domain, bb)) :
          /\ stack' = SetTop([Top EXCEPT !.worklist = Tail(@), !.pc = "visit", !.bb = bb,
                                         !.idx = 1, !.state = pre,
                                         !.visits = VisitsAfter(@)])
          /\ last' = Event("pop", "", bb, Top.func, pre, pre, NoCallee, <<>>, NoName, {}, NoSummary)
  /\ UNCHANGED <<apart, input, caps, summary_cache, diagnoses, driver, status, results, capHit>>

\* Where the frame stands after the instruction or terminator at hand.
Advance(frame, state, at_term) ==
  IF at_term THEN [frame EXCEPT !.state = state, !.pc = "end_block", !.call = NoCall]
  ELSE [frame EXCEPT !.state = state, !.idx = @ + 1, !.pc = "visit", !.call = NoCall]

\* The operands a phi, insertelement or insertvalue reads.
InstrOperands(item) ==
  CASE item.op = "phi" -> item.incoming
    [] item.op \in {"insertelement", "insertvalue"} -> <<item.element>>
    [] OTHER -> <<>>

\* BlockVisitor::analyze: an instruction other than a call, or a
\* terminator other than an invoke.
StepPlain ==
  /\ status = "running" /\ stack # <<>> /\ Top.pc = "visit"
  /\ LET item == IF AtTerminator THEN CurBlock.term ELSE CurBlock.instrs[Top.idx] IN
       /\ item.op \notin {"call", "invoke"}
       /\ IF AtTerminator
          THEN \E rs \in (IF item.op = "ret" THEN analyze_ret(Top.state, item, Top.ret_state)
                          ELSE {Top.ret_state}) :
                 /\ stack' = SetTop([Advance(Top, Top.state, TRUE) EXCEPT !.ret_state = rs])
                 /\ last' = Event("term", item.op, "", Top.func, Top.state, Top.state,
                                  NoCallee, <<>>, NoName, {}, NoSummary)
          ELSE \E st \in analyze_instruction(Top.state, item) :
                 /\ stack' = SetTop(Advance(Top, st, FALSE))
                 /\ last' = Event("instr", item.op, "", Top.func, Top.state, st, NoCallee,
                                  InstrOperands(item),
                                  IF "dest" \in DOMAIN item THEN item.dest ELSE NoName,
                                  {}, NoSummary)
  /\ UNCHANGED <<apart, input, caps, summary_cache, diagnoses, driver, status, results, capHit>>

\* The call instruction or invoke terminator at hand, and what it can do.
AtCall ==
  /\ status = "running" /\ stack # <<>> /\ Top.pc = "visit"
  /\ (IF AtTerminator THEN CurBlock.term ELSE CurBlock.instrs[Top.idx]).op \in {"call", "invoke"}
CallItem == IF AtTerminator THEN CurBlock.term ELSE CurBlock.instrs[Top.idx]
\* analyze_invoke passes Some(invoke.result) as the destination.
CallDest == IF CallItem.op = "invoke" THEN CallItem.result ELSE CallItem.dest
CurCallResults ==
  CallResults(Prog(input), summary_cache, caps.depth, Top.depth, demangle_name(Top.func),
              Top.state, CallItem.callee, CallItem.arguments, CallDest)

\* A call that is handled without analyzing a callee: a source, a sink,
\* an intrinsic, an ignored function, a cached summary, a skipped callee.
StepCall ==
  /\ AtCall
  /\ \E r \in CurCallResults :
       /\ r.type = "done"
       /\ stack' = SetTop(Advance(Top, r.state, AtTerminator))
       /\ diagnoses' = diagnoses \cup r.diags
       /\ capHit' = (capHit \/ r.note = "skipped")
       /\ last' = Event(CallItem.op, r.cls, r.note, Top.func, Top.state, r.state,
                        CallItem.callee, CallItem.arguments, CallDest, r.diags, r.summary)
  /\ UNCHANGED <<apart, input, caps, summary_cache, driver, status, results>>

\* handle_intrinsic fails an assert!: the analyzer aborts.
StepPanic ==
  /\ AtCall
  /\ \E r \in CurCallResults :
       /\ r.type = "panic"
       /\ status' = "panicked"
       /\ last' = Event("panic", r.cls, "", Top.func, Top.state, r.state,
                        CallItem.callee, CallItem.arguments, CallDest, {}, NoSummary)
  /\ UNCHANGED <<apart, input, caps, stack, summary_cache, diagnoses, driver, results, capHit>>

\* get_function_summary misses the cache: new_with_init creates the
\* nested FuncAnalysis and iterate_to_fixpoint starts on it.
Descend ==
  /\ AtCall
  /\ \E r \in CurCallResults :
       /\ r.type = "descend"
       /\ stack' = Append(SetTop([Top EXCEPT !.pc = "wait",
                                    !.call = [sym |-> CallItem.callee.name, init |-> r.init,
                                              arguments |-> CallItem.arguments,
                                              dest |-> CallDest, ffi |-> r.cls = "FFIKnown",
                                              via |-> CallItem.op]]),
                          NewFrame(Prog(input).functions[CallItem.callee.name],
                                   r.init_state, Top.depth + 1))
       /\ last' = Event("descend", r.cls, CallItem.op, Top.func, Top.state, r.init_state,
                        CallItem.callee, CallItem.arguments, CallDest, {}, NoSummary)
  /\ UNCHANGED <<apart, input, caps, summary_cache, diagnoses, driver, status, results, capHit>>

\* The nested iterate_to_fixpoint has returned: get_function_summary
\* caches the summary, analyze_normal_function applies it to the caller,
\* and analyze_function checks the arguments of an FFI.
Return ==
  /\ status = "running" /\ Len(stack) >= 2 /\ Top.pc = "returned"
  /\ LET caller == stack[Len(stack) - 1]
         c == caller.call
         function == CurFunction
         callerBlock == BlockByName(Prog(input).functions[caller.func], caller.bb)
     IN \E end_state \in get_state_after_call(function, Top.taint_domain) :
        \E st \in ApplySummary(caller.state, c.arguments, c.dest, function.parameters,
                               end_state, Top.ret_state) :
        \E dg \in FFIKnownDiags(c.ffi, st, c.sym, c.arguments, demangle_name(caller.func)) :
          /\ summary_cache' = CacheInsert(summary_cache, <<c.sym, c.init>>,
                                          <<end_state, Top.ret_state>>)
          /\ stack' = Append(SubSeq(stack, 1, Len(stack) - 2),
                             Advance(caller, st, caller.idx > Len(callerBlock.instrs)))
          /\ diagnoses' = diagnoses \cup dg
          /\ last' = Event("return", IF c.ffi THEN "FFIKnown" ELSE "Normal", c.via,
                           caller.func, caller.state, st, Global(c.sym), c.arguments,
                           c.dest, dg,
                           [end_state |-> end_state, ret_state |-> Top.ret_state,
                            parameters |-> function.parameters])
  /\ UNCHANGED <<apart, input, caps, driver, status, results, capHit>>

\* analyze_basic_block stores the post-condition; iterate_to_fixpoint
\* compares the block's new state with the old one, extends the worklist,
\* counts the iteration and leaves the loop when the worklist is empty or
\* the count exceeds the limit.
EndBlock ==
  /\ status = "running" /\ stack # <<>> /\ Top.pc = "end_block"
  /\ LET function == CurFunction
         bb == Top.bb
         taint_domain == BSInsert(Top.taint_domain, bb, Top.state)
         iteration == IterationAfter(Top.iteration)
     IN \E new_state \in get_state_from_predecessors(function, taint_domain, bb) :
        \E le \in (IF bb \in DOMAIN Top.old_state THEN BSLe(new_state, Top.old_state[bb])
                   ELSE {FALSE}) :
          LET changed == (bb \notin DOMAIN Top.old_state) \/ ~le
              worklist == IF changed THEN Top.worklist \o get_successors(function, bb)
                          ELSE Top.worklist
              break == IterationExceeded(iteration, caps.iteration)
          IN /\ stack' = SetTop([Top EXCEPT
                                   !.taint_domain = taint_domain,
                                   !.old_state = IF changed THEN BSInsert(@, bb, new_state) ELSE @,
                                   !.worklist = worklist,
                                   !.iteration = iteration,
                                   !.pc = IF break \/ worklist = <<>> THEN "returned" ELSE "loop"])
             /\ capHit' = (capHit \/ (break /\ worklist # <<>>))
             /\ last' = Event("end_block", IF changed THEN "changed" ELSE "same", bb, Top.func,
                              Top.state, new_state, NoCallee, <<>>, NoName, {}, NoSummary)
  /\ UNCHANGED <<apart, input, caps, summary_cache, diagnoses, driver, status, results>>

\* StaticAnalysis::run: iterate_to_fixpoint of an entry function returns.
EntryDone ==
  /\ status = "running" /\ Len(stack) = 1 /\ Top.pc = "returned"
  /\ stack' = <<>>
  /\ results' = BSInsert(results, Top.func,
                         [taint_domain |-> Top.taint_domain, ret_state |-> Top.ret_state,
                          cut |-> capHit])
  /\ last' = Mark("entry_done", Top.func)
  /\ UNCHANGED <<apart, input, caps, summary_cache, diagnoses, driver, status, capHit>>

Next ==
  \/ StartEntry
  \/ NextEntry
  \/ Finish
  \/ PopBlock
  \/ StepPlain
  \/ StepCall
  \/ StepPanic
  \/ Descend
  \/ Return
  \/ EndBlock
  \/ EntryDone

Spec == Init /\ [][Next]_vars

\* The analyzer is one sequential program: while a step is possible, one is
\* taken.  The runs are those over the programs with loops, recursion and
\* call chains.
InitLive == Init /\ input \in FixedInputs
SpecLive == InitLive /\ [][Next]_vars /\ WF_vars(Next)

(***************************************************************************)
(* BlockState on its own: from BlockState::default, any sequence of        *)
(* set_tainted, propagate_taint and union with a second BlockState built   *)
(* the same way.                                                           *)
(***************************************************************************)
DomSetTainted ==
  /\ dom.n < MaxOps
  /\ \E var \in DomNames, state \in DomStates :
     \E post \in SetTainted(dom.a, var, state) :
       dom' = DomOp(post, dom.b, dom.n + 1, dom.joined, "set_tainted", var, NoName, state, dom.a)
  /\ UNCHANGED <<analysis, lat, out>>

DomPropagateTaint ==
  /\ dom.n < MaxOps
  /\ \E from \in DomNames, to \in DomNames :
     \E post \in PropagateTaint(dom.a, from, to) :
       dom' = DomOp(post, dom.b, dom.n + 1, dom.joined, "propagate_taint", from, to,
                    "Untainted", dom.a)
  /\ UNCHANGED <<analysis, lat, out>>

DomUnion ==
  /\ ~dom.joined
  /\ \E post \in BSUnion(dom.a, dom.b) :
       dom' = DomOp(post, dom.b, dom.n, TRUE, "union", NoName, NoName, "Untainted", dom.a)
  /\ UNCHANGED <<analysis, lat, out>>

\* The BlockState built so far is set aside as the second operand, and a
\* new one is started from BlockState::default.
DomPark ==
  /\ dom.b = EmptyState /\ dom.a # EmptyState
  /\ dom' = DomOp(EmptyState, dom.a, dom.n, dom.joined, "default", NoName, NoName,
                  "Untainted", EmptyState)
  /\ UNCHANGED <<analysis, lat, out>>

InitDomain ==
  /\ input = Input("fixed", <<>>, "loop", FALSE, <<>>, NoName)
  /\ caps = [depth |-> MAX_DEPTH, iteration |-> MAX_ITERATION]
  /\ stack = <<>>
  /\ summary_cache = EmptyCache
  /\ diagnoses = {}
  /\ driver = [entry |-> 1, seen |-> {}]
  /\ status = "running"
  /\ results = EmptyDomain
  /\ capHit = FALSE
  /\ last = Mark("init", "")
  /\ dom = DomInit
  /\ lat = LatInit
  /\ out = OutInit
NextDomain == DomSetTainted \/ DomPropagateTaint \/ DomUnion \/ DomPark
SpecDomain == InitDomain /\ [][NextDomain]_vars

(***************************************************************************)
(* MemoryState on its own: partial_cmp and union on any two states.        *)
(***************************************************************************)
LatPartialCmp ==
  /\ \E self \in MemoryState, other \in MemoryState :
       lat' = LatOp(self, other, lat.third, "partial_cmp", MSPartialCmp(self, other),
                    lat.joined, lat.failed)
  /\ UNCHANGED <<analysis, dom, out>>

LatUnion ==
  /\ \E self \in MemoryState, other \in MemoryState :
       lat' = LatOp(self, other, lat.third, "union", lat.ordering,
                    MSUnion(self, other), MSUnionPanics(self, other))
  /\ UNCHANGED <<analysis, dom, out>>

\* Another state to compare the operands and the result with.
LatThird ==
  /\ \E third \in MemoryState : lat' = [lat EXCEPT !.third = third]
  /\ UNCHANGED <<analysis, dom, out>>

InitLattice == InitDomain
NextLattice == LatPartialCmp \/ LatUnion \/ LatThird
SpecLattice == InitLattice /\ [][NextLattice]_vars

(***************************************************************************)
(* The diagnosis set on its own: generate_diagnosis, then output_diagnoses *)
(* under any threshold, crate names and iteration order of the HashSet.    *)
(***************************************************************************)
OutGenerate ==
  /\ Cardinality(out.diagnoses) < MaxDiagnoses
  /\ \E diagnosis \in OutDiagnoses \ out.diagnoses :
       out' = OutOp(out.diagnoses \cup {diagnosis}, out.threshold, out.crate_names,
                    NothingIssued, "generate_diagnosis")
  /\ UNCHANGED <<analysis, dom, lat>>

OutOutput ==
  /\ \E threshold \in OutThresholds, crate_names \in OutCrateNames,
        ord \in Perms(out.diagnoses) :
       out' = OutOp(out.diagnoses, threshold, crate_names,
                    output_diagnoses(ord, threshold, crate_names), "output_diagnoses")
  /\ UNCHANGED <<analysis, dom, lat>>

InitOutput == InitDomain
NextOutput == OutGenerate \/ OutOutput
SpecOutput == InitOutput /\ [][NextOutput]_vars

(***************************************************************************)
(* Properties                                                              *)
(***************************************************************************)
\* The step taken last was a call or invoke that completed at once.
IsCallEvent == last.kind \in {"call", "invoke"}
\* The states argument i of that call can be read to have before the call.
ArgStates(i) == GetMemoryStates(last.pre, last.arguments[i].name)
BugKinds(d) == {d.possible_bugs[k] : k \in 1..Len(d.possible_bugs)}
IsHighUafDf(d) ==
  /\ d.seriousness = "High"
  /\ BugKinds(d) = {"UseAfterFree", "DoubleFree"}
  /\ d.function_name = demangle_name(last.func)

\* C1: a call or invoke of a FreeSink with an SSA argument in a state >=
\* Tainted adds a High diagnosis {UseAfterFree, DoubleFree} for the
\* function containing the call and leaves the BlockState as it was; with
\* no tainted SSA argument it adds none.  A pointer from Box::into_raw
\* passed to free ends the run with that diagnosis.
C1_FreeSinkDiagnosis ==
  /\ (IsCallEvent /\ last.cls = "FreeSink") =>
       /\ last.post = last.pre
       /\ (\E i \in LocalArgs(last.arguments) : \A st \in ArgStates(i) : MSGe(st, "Tainted"))
            => /\ \E d \in last.diags : IsHighUafDf(d)
               /\ last.diags \subseteq diagnoses
       /\ (\A i \in LocalArgs(last.arguments) : \A st \in ArgStates(i) : ~MSGe(st, "Tainted"))
            => last.diags = {}
  /\ (/\ input.fam = "sink" /\ input.callee = "free" /\ status = "done"
      /\ \E i \in 1..Len(input.seeds) : input.seeds[i] = "into_raw")
       => \E d \in diagnoses :
            /\ d.seriousness = "High"
            /\ BugKinds(d) = {"UseAfterFree", "DoubleFree"}
            /\ d.function_name = "demo::main"

\* An invoke of free with a pointer from Box::into_raw has added the diagnosis.
C1_Witness ==
  /\ last.kind = "invoke" /\ last.cls = "FreeSink"
  /\ \E i \in 1..Len(input.seeds) : input.seeds[i] = "into_raw"
  /\ \E d \in last.diags : IsHighUafDf(d)

\* The table of the FFI case with bitcode absent: state -> <<kinds, severity>>.
FFIUnknownTable(st) ==
  CASE st = "Tainted" -> <<{"MemoryLeakage"}, "Low">>
    [] st = "Borrowed" -> <<{"UseAfterFree"}, "Low">>
    [] st = "Forgotten" -> <<{"MemoryLeakage"}, "Medium">>
    [] st = "Unknown" -> <<{"UseAfterFree", "MemoryLeakage"}, "Medium">>
\* The table of the function-pointer case.
FnPtrTable(st) ==
  CASE st = "Tainted" -> <<{"UseAfterFree"}, "Low">>
    [] st = "Borrowed" -> <<{"UseAfterFree"}, "Low">>
    [] st = "Forgotten" -> <<{"MemoryLeakage"}, "Medium">>
    [] st = "Unknown" -> <<{"UseAfterFree", "MemoryLeakage"}, "Medium">>
Matches(d, entry) == BugKinds(d) = entry[1] /\ d.seriousness = entry[2]

\* The classification by the first matching rule in the order AllocSource,
\* FreeSink, Ignore, Intrinsic, FFISink, Normal.
FirstMatchType(ffi_functions, sym) ==
  LET known == get_type(demangle_name(sym))[1]
  IN IF known \in {"AllocSource", "FreeSink", "Ignore", "Intrinsic"} THEN known
     ELSE IF sym \in ffi_functions THEN "FFISink"
     ELSE "Normal"
\* The KnownNameType behind the class of a step.
StepType(cls) == IF cls \in {"FFIUnknown", "FFIKnown"} THEN "FFISink" ELSE cls

\* C2: a call of an FFISink whose bitcode is absent adds, for each SSA
\* argument, the diagnosis the table gives for its state before the call
\* (Tainted: MemoryLeakage Low; Borrowed: UseAfterFree Low; Forgotten:
\* MemoryLeakage Medium; Unknown: UseAfterFree and MemoryLeakage Medium),
\* adds nothing else, and leaves the BlockState as it was.
C2_FFIUnknownTable ==
  (/\ IsCallEvent /\ last.cls = "FFIUnknown"
   /\ FirstMatchType(Prog(input).ffi_functions, last.callee.name) = "FFISink") =>
    /\ last.post = last.pre
    /\ \A i \in LocalArgs(last.arguments) : \A st \in ArgStates(i) :
         st # "Untainted" => \E d \in last.diags : Matches(d, FFIUnknownTable(st))
    /\ \A d \in last.diags :
         \E i \in LocalArgs(last.arguments) : \E st \in ArgStates(i) :
           st # "Untainted" /\ Matches(d, FFIUnknownTable(st))

\* C3: a call or invoke through a function pointer adds, for each SSA
\* argument that is Tainted, Borrowed, Forgotten or Unknown, one diagnosis
\* for the calling function (Tainted, Borrowed: UseAfterFree Low;
\* Forgotten: MemoryLeakage Medium; Unknown: UseAfterFree and
\* MemoryLeakage Medium), none for Untainted arguments, and leaves the
\* BlockState as it was.
C3_FnPtrTable ==
  (IsCallEvent /\ last.cls = "FnPtr") =>
    /\ last.post = last.pre
    /\ last.diags \subseteq diagnoses
    /\ \A i \in LocalArgs(last.arguments) : \A st \in ArgStates(i) :
         st # "Untainted" =>
           \E d \in last.diags : /\ Matches(d, FnPtrTable(st))
                                 /\ d.function_name = demangle_name(last.func)
    /\ \A d \in last.diags :
         \E i \in LocalArgs(last.arguments) : \E st \in ArgStates(i) :
           st # "Untainted" /\ Matches(d, FnPtrTable(st))

\* An invoke through a function pointer with an Unknown argument has
\* added the Medium diagnosis with both kinds.
C3_Witness ==
  /\ last.kind = "invoke" /\ last.cls = "FnPtr"
  /\ \E i \in LocalArgs(last.arguments) : ArgStates(i) = {"Unknown"}
  /\ \E d \in last.diags : Matches(d, FnPtrTable("Unknown"))

\* C4: a callee called by name is classified by the first matching rule in
\* the order AllocSource, FreeSink, Ignore, Intrinsic, FFISink, Normal; a
\* declared foreign function that matches an earlier rule (free, for one)
\* is classified by that rule and not as FFISink.
C4_ClassificationOrder ==
  (last.kind \in {"call", "invoke", "descend", "return", "panic"}
   /\ last.callee.kind = "global") =>
    StepType(last.cls) = FirstMatchType(Prog(input).ffi_functions, last.callee.name)

\* The step taken last applied a summary to the caller of a Normal callee:
\* one found in the cache, or one just computed.
SummaryApplied ==
  /\ last.cls = "Normal"
  /\ last.kind = "return" \/ (IsCallEvent /\ last.note = "hit")
\* The positions of the SSA arguments that have a formal parameter.
PairedArgs ==
  {i \in LocalArgs(last.arguments) : i <= Len(last.summary.parameters)}
\* dest has ret_state, and each paired argument the state of its formal.
SummaryVisible ==
  /\ last.dest # NoName =>
       GetMemoryStates(last.post, last.dest) = {last.summary.ret_state}
  /\ \A i \in PairedArgs :
       GetMemoryStates(last.post, last.arguments[i].name)
         \subseteq GetMemoryStates(last.summary.end_state, last.summary.parameters[i])

\* C5: after a Normal call with a summary, the destination has ret_state
\* and every SSA argument has the state its formal has in end_state, for
\* every argument list, aliasing arguments and destination included.
C5_SummaryApplied == SummaryApplied => SummaryVisible

\* The names the call writes: the destination and the paired arguments.
WrittenNames ==
  (IF last.dest # NoName THEN {last.dest} ELSE {})
    \cup {last.arguments[i].name : i \in PairedArgs}
\* Before the call the written names are distinct, each in at most one
\* Allocation, no two in the same Allocation, none a dotted prefix of another.
NoAliasing ==
  /\ \A i, j \in PairedArgs : i # j => last.arguments[i].name # last.arguments[j].name
  /\ \A i \in PairedArgs : last.arguments[i].name # last.dest
  /\ \A a \in WrittenNames : Cardinality({c \in DOMAIN last.pre : a \in c}) <= 1
  /\ \A a, b \in WrittenNames :
       a # b => /\ a \notin Prefixes(b)
                /\ ~\E c \in DOMAIN last.pre : a \in c /\ b \in c

\* C5 (amended): the same, provided the destination and the SSA arguments
\* are distinct names that lie in distinct Allocations before the call.
C5_SummaryAppliedNoAlias == (SummaryApplied /\ NoAliasing) => SummaryVisible

\* A freshly computed summary has changed a distinct destination and argument.
C5_Witness ==
  /\ SummaryApplied /\ NoAliasing /\ last.kind = "return"
  /\ last.dest # NoName /\ last.summary.ret_state # "Untainted"
  /\ \E i \in PairedArgs :
       GetMemoryStates(last.pre, last.arguments[i].name)
         # GetMemoryStates(last.post, last.arguments[i].name)

\* C6: a summary is immutable once cached: the value stored under a key
\* never changes for the rest of the run, recursive callees re-entered
\* with the same argument states included.
C6_SummaryImmutable ==
  [][\A k \in DOMAIN summary_cache :
       k \in DOMAIN summary_cache' /\ summary_cache'[k] = summary_cache[k]]_vars

\* C7: the analysis terminates: for every control-flow graph and call
\* graph each iterate_to_fixpoint returns and StaticAnalysis::run finishes
\* (or the analyzer stops on a failed assert).
C7_Terminates ==
  /\ <>(status = "done" \/ status = "panicked")
  /\ []<>(stack = <<>> \/ status = "panicked")

\* The run over the loop that never settles has finished, cut by the limit.
C7_Witness == status = "done" /\ capHit /\ input.fam = "fixed" /\ input.callee = "osc"

\* C8: within one iterate_to_fixpoint at most MAX_ITERATION blocks are visited.
C8_VisitsBounded == \A i \in 1..Len(stack) : stack[i].visits <= MAX_ITERATION

\* C9: entry analyses run at depth 1, a nested analysis at its caller's
\* depth + 1, and no FuncAnalysis has depth >= MAX_DEPTH; a call whose
\* nested analysis would reach MAX_DEPTH is not analyzed, stores no
\* summary and leaves the caller's BlockState as it was.
C9_DepthBounded ==
  /\ [](\A i \in 1..Len(stack) : stack[i].depth = i /\ stack[i].depth < MAX_DEPTH)
  /\ [][(last'.kind \in {"call", "invoke"} /\ last'.note = "skipped") =>
          /\ Top.depth + 1 >= MAX_DEPTH
          /\ summary_cache' = summary_cache
          /\ Len(stack') = Len(stack)
          /\ last'.pre = Top.state
          /\ last'.post = Top.state
          /\ stack'[Len(stack')].state = Top.state]_vars

\* A call is skipped by a caller that sits one level under the limit.
C9_Witness ==
  /\ last.kind \in {"call", "invoke"} /\ last.note = "skipped"
  /\ stack # <<>> /\ Top.depth = MAX_DEPTH - 1
  /\ Top.state = last.pre

\* Whether every name of BlockState ref has in BlockState capped a state
\* at or above the one it has in ref.
StateGe(capped, ref) ==
  \A n \in UNION (DOMAIN ref) :
    \A s1 \in GetMemoryStates(capped, n), s2 \in GetMemoryStates(ref, n) : MSGe(s1, s2)

\* The functions without parameters that the run has analyzed both as an
\* entry point (FuncAnalysis::new, depth 1) and as a callee whose summary is
\* cached under the key (f, []); both analyses start from the empty state.
BothWays ==
  {f \in DOMAIN results :
     <<f, <<>>>> \in DOMAIN summary_cache /\ Prog(input).functions[f].parameters = <<>>}

\* C10: an analysis cut short by the iteration or the depth limit is a sound
\* over-approximation: the end_state and ret_state of a summary it caches
\* are >= those of the same analysis when no limit is hit, which is the
\* analysis of the same function from the same state as an entry point
\* that no limit has cut.
C10_CappedOverApproximates ==
  status = "done" =>
    \A f \in BothWays :
      ~results[f].cut =>
        /\ MSGe(summary_cache[<<f, <<>>>>][2], results[f].ret_state)
        /\ \A end_state \in get_state_after_call(Prog(input).functions[f],
                                                  results[f].taint_domain) :
             StateGe(summary_cache[<<f, <<>>>>][1], end_state)

\* Whether the taint_domain of frame fr solves the block equations:
\* every block holds a post-condition of its pre-condition (init_state
\* for the entry block, the join of its predecessors otherwise).
BlockEquations(fr) ==
  LET function == Prog(input).functions[fr.func] IN
  \A k \in 1..Len(function.basic_blocks) :
    LET block == function.basic_blocks[k]
        pres == IF k = 1 THEN {fr.init_state}
                ELSE get_state_from_predecessors(function, fr.taint_domain, block.name)
    IN /\ block.name \in DOMAIN fr.taint_domain
       /\ \E pre \in pres :
            \E post \in BlockAnalyze(Prog(input), summary_cache, caps.depth, fr.depth,
                                     demangle_name(fr.func), block, pre) :
              post.open \/ post.state = fr.taint_domain[block.name]

\* C11: when iterate_to_fixpoint ends on an empty worklist without the
\* iteration limit being hit, the domain is a fixpoint of the block
\* equations.
C11_Fixpoint ==
  \A i \in 1..Len(stack) :
    (stack[i].pc = "returned" /\ stack[i].worklist = <<>>
     /\ ~IterationExceeded(stack[i].iteration, caps.iteration))
      => BlockEquations(stack[i])

\* The blocks of a function that return an SSA value.
ValueRetBlocks(function) ==
  {k \in 1..Len(function.basic_blocks) :
     LET term == function.basic_blocks[k].term
     IN term.op = "ret" /\ term.has_operand /\ term.operand.local}

\* The least upper bounds of the returned values' states over the return
\* blocks from block i on, joined onto acc.
RECURSIVE RetLubFrom(_, _, _, _)
RetLubFrom(function, taint_domain, i, acc) ==
  LET rest == {k \in ValueRetBlocks(function) :
                 k >= i /\ function.basic_blocks[k].name \in DOMAIN taint_domain}
  IN IF rest = {} THEN {acc}
     ELSE LET j == CHOOSE k \in rest : \A m \in rest : k <= m
              block == function.basic_blocks[j]
          IN UNION {RetLubFrom(function, taint_domain, j + 1, MSUnion(acc, st))
                    : st \in GetMemoryStates(taint_domain[block.name],
                                             block.term.operand.name)}

\* C12: for a function with several return blocks that return SSA
\* values, ret_state after the analysis is the least upper bound of the
\* returned values' states over all return blocks.
C12_RetStateIsLub ==
  \A i \in 1..Len(stack) :
    LET function == Prog(input).functions[stack[i].func] IN
    (stack[i].pc = "returned" /\ stack[i].worklist = <<>>
     /\ Cardinality(ValueRetBlocks(function)) >= 2)
      => stack[i].ret_state \in RetLubFrom(function, stack[i].taint_domain, 1, "Untainted")

\* The intrinsic of the call of the last step ("None" when it is none).
LastIntrinsic ==
  IF IsCallEvent /\ last.callee.kind = "global" /\ last.cls = "Intrinsic"
  THEN get_intrinsic(demangle_name(last.callee.name)) ELSE "None"

\* The level an intrinsic escalates its argument to, and which argument.
EscalationLevel(intrinsic) ==
  CASE intrinsic \in {"Forget", "BoxIntoRaw", "CStringIntoRaw", "VecIntoRawParts"} -> "Forgotten"
    [] intrinsic \in {"VecAsPtr", "CStringAsCStr"} -> "Borrowed"
    [] OTHER -> "None"
EscalatedArg(intrinsic) == IF intrinsic = "VecIntoRawParts" THEN 2 ELSE 1

\* C13: escalation never lowers a state: an escalating intrinsic sets its
\* argument to S when the argument is strictly below S and otherwise
\* leaves it, and the result, if any, then has the argument's state.
C13_EscalationNeverLowers ==
  LET level == EscalationLevel(LastIntrinsic)
      k == EscalatedArg(LastIntrinsic)
  IN (level # "None" /\ Len(last.arguments) >= k /\ last.arguments[k].local) =>
       LET name == last.arguments[k].name IN
       \A s0 \in GetMemoryStates(last.pre, name) :
         LET expected == IF MSLt(s0, level) THEN level ELSE s0
         IN /\ GetMemoryStates(last.post, name) = {expected}
            /\ last.dest # NoName => GetMemoryStates(last.post, last.dest) = {expected}

\* %q = Vec::as_ptr(%v) after forget(%v) on an untainted %v: both Forgotten.
C13_Witness ==
  /\ LastIntrinsic = "VecAsPtr" /\ input.fam = "intr" /\ input.seeds[1] = "forget_none"
  /\ last.dest = Num(3)
  /\ GetMemoryStates(last.pre, Num(1)) = {"Forgotten"}
  /\ GetMemoryStates(last.post, Num(1)) = {"Forgotten"}
  /\ GetMemoryStates(last.post, Num(3)) = {"Forgotten"}

\* The names that share an Allocation with name in bs, name included.
ClassOf(bs, name) == {name} \cup UNION {a \in DOMAIN bs : name \in a}

\* C14: from_raw_parts with an SSA-valued arg0: a Forgotten arg0 is reset,
\* with its whole class, to Tainted, any other state is kept, and the
\* result, if present, then has arg0's state.
C14_FromRawPartsResets ==
  (LastIntrinsic = "VecFromRawParts" /\ Len(last.arguments) >= 1 /\ last.arguments[1].local) =>
    LET name == last.arguments[1].name IN
    \A s0 \in GetMemoryStates(last.pre, name) :
      LET expected == IF s0 = "Forgotten" THEN "Tainted" ELSE s0
      IN /\ \A n \in ClassOf(last.pre, name) : GetMemoryStates(last.post, n) = {expected}
         /\ last.dest # NoName => GetMemoryStates(last.post, last.dest) = {expected}

\* %1 = Box::into_raw(%11); %3 = Vec::from_raw_parts(%1, ..): %3 is Tainted.
C14_Witness ==
  /\ LastIntrinsic = "VecFromRawParts" /\ input.fam = "intr" /\ input.seeds[1] = "into_raw"
  /\ last.dest = Num(3)
  /\ GetMemoryStates(last.pre, Num(1)) = {"Forgotten"}
  /\ GetMemoryStates(last.post, Num(11)) = {"Tainted"}
  /\ GetMemoryStates(last.post, Num(3)) = {"Tainted"}

\* C15 (I1): from the empty BlockState, after any sequence of set_tainted
\* and propagate_taint calls, the Allocations of the map are pairwise
\* disjoint.
C15_ClassesDisjoint == ~dom.joined => Disjoint(dom.a)

\* C16 (I2): in every BlockState reachable by set_tainted, propagate_taint
\* and union no Allocation is mapped to Untainted; an entry that would
\* become Untainted is deleted instead.
C16_NoUntaintedEntry ==
  /\ \A alloc \in DOMAIN dom.a : dom.a[alloc] # "Untainted"
  /\ \A alloc \in DOMAIN dom.b : dom.b[alloc] # "Untainted"
  /\ (dom.kind = "set_tainted" /\ dom.state = "Untainted") =>
       \/ dom.a = dom.pre /\ \A alloc \in DOMAIN dom.pre : dom.var \notin alloc
       \/ \E alloc \in DOMAIN dom.pre : dom.var \in alloc /\ dom.a = BSRemove(dom.pre, alloc)

\* After a union, set_tainted(var, Untainted) has deleted the entry of var.
C16_Witness ==
  /\ dom.joined /\ dom.kind = "set_tainted" /\ dom.state = "Untainted"
  /\ \E alloc \in DOMAIN dom.pre : dom.var \in alloc /\ Cardinality(alloc) >= 2
  /\ dom.a # dom.pre

\* C17 (I3): in every BlockState reachable by set_tainted, propagate_taint
\* and union, every dot-prefix of a textual Name of an Allocation is a
\* member of the same Allocation.
C17_PrefixClosure ==
  \A alloc \in DOMAIN dom.a : \A name \in alloc : Prefixes(name) \subseteq alloc

\* C18: for reachable BlockStates A and B and every order in which union
\* visits the names, A <= A.union(B) and B <= A.union(B).
C18_UnionIsUpperBound ==
  dom.kind = "union" => (BSLe(dom.pre, dom.a) = {TRUE} /\ BSLe(dom.b, dom.a) = {TRUE})

\* C19: for BlockStates A and B whose own classes are pairwise disjoint,
\* the classes of A.union(B) are pairwise disjoint.
C19_UnionKeepsDisjoint ==
  (dom.kind = "union" /\ Disjoint(dom.pre) /\ Disjoint(dom.b)) => Disjoint(dom.a)

\* C20: if get_memory_state(from) = S with S # Untainted, then after
\* propagate_taint(from, to), get_memory_state(to) = S, and from and to
\* are in one Allocation that holds every former alias of either.
C20_PropagateInstallsState ==
  dom.kind = "propagate_taint" =>
    \A S \in MemoryState \ {"Untainted"} :
      GetMemoryStates(dom.pre, dom.var) = {S} =>
        /\ GetMemoryStates(dom.a, dom.to) = {S}
        /\ \E alloc \in DOMAIN dom.a :
             ClassOf(dom.pre, dom.var) \cup ClassOf(dom.pre, dom.to) \subseteq alloc

\* C21: on every reachable BlockState, for every Name n and every state
\* S # Untainted, after set_tainted(n, S) followed by set_tainted(n,
\* Untainted) n is untracked: no Allocation holds n and get_memory_state(n)
\* is Untainted.
C21_SetThenClearUntracks ==
  [][(/\ dom.kind = "set_tainted" /\ dom.state # "Untainted"
      /\ dom'.kind = "set_tainted" /\ dom'.state = "Untainted"
      /\ dom'.var = dom.var /\ dom'.pre = dom.a)
     => (/\ \A alloc \in DOMAIN dom'.a : dom.var \notin alloc
         /\ GetMemoryStates(dom'.a, dom.var) = {"Untainted"})]_vars

\* Whether, after set_tainted(n, S), n and each of its dot-prefixes is
\* tainted under every iteration order, and every Allocation that holds n
\* holds all its prefixes.
PrefixesExpanded ==
  /\ \A ord \in Orders(dom.a) : \A p \in Prefixes(dom.var) : IsTaintedO(dom.a, ord, p)
  /\ \E alloc \in DOMAIN dom.a : dom.var \in alloc
  /\ \A alloc \in DOMAIN dom.a : dom.var \in alloc => Prefixes(dom.var) \subseteq alloc

\* C22: for every reachable BlockState and every S # Untainted, after
\* set_tainted(n, S) is_tainted holds for n and for each of its dot-prefixes,
\* and the class holding n contains all of them, whether n was untracked or
\* already belonged to a class.
C22_PrefixExpansion ==
  (dom.kind = "set_tainted" /\ dom.state # "Untainted") => PrefixesExpanded
\* The same when n lies in at most one Allocation before the call.
C22_OneClassBefore ==
  (/\ dom.kind = "set_tainted" /\ dom.state # "Untainted"
   /\ Cardinality({old \in DOMAIN dom.pre : dom.var \in old}) <= 1) => PrefixesExpanded

\* set_tainted on a.b, which was in an Allocation that did not hold a.
C22_Witness ==
  /\ dom.kind = "set_tainted" /\ dom.state # "Untainted"
  /\ dom.var = Txt(<<"a", "b">>)
  /\ \E old \in DOMAIN dom.pre : dom.var \in old /\ Txt(<<"a">>) \notin old
  /\ \A alloc \in DOMAIN dom.a : dom.var \in alloc => Txt(<<"a">>) \in alloc

\* C23: for all MemoryStates a and b, a.union(b) is the least upper bound
\* of a and b under partial_cmp: it is >= a and >= b, and every c that is
\* >= a and >= b is >= a.union(b); union is commutative and idempotent,
\* Borrowed.union(Forgotten) = Unknown, Untainted.union(x) = x,
\* Unknown.union(x) = Unknown, and the assertions inside union never fail.
C23_UnionIsLub ==
  lat.kind = "union" =>
    /\ MSGe(lat.joined, lat.self) /\ MSGe(lat.joined, lat.other)
    /\ (MSGe(lat.third, lat.self) /\ MSGe(lat.third, lat.other)) => MSGe(lat.third, lat.joined)
    /\ lat.joined = MSUnion(lat.other, lat.self)
    /\ lat.self = lat.other => lat.joined = lat.self
    /\ (lat.self = "Borrowed" /\ lat.other = "Forgotten") => lat.joined = "Unknown"
    /\ lat.self = "Untainted" => lat.joined = lat.other
    /\ lat.self = "Unknown" => lat.joined = "Unknown"
    /\ ~lat.failed

\* Borrowed.union(Forgotten) has returned Unknown, with Unknown as the
\* upper bound it is compared with.
C23_Witness ==
  /\ lat.kind = "union" /\ lat.self = "Borrowed" /\ lat.other = "Forgotten"
  /\ lat.joined = "Unknown" /\ lat.third = "Unknown"

\* The height of a state in the diagram
\* Untainted < Tainted < {Borrowed, Forgotten} < Unknown.
Height(state) ==
  CASE state = "Untainted" -> 0
    [] state = "Tainted" -> 1
    [] state \in {"Borrowed", "Forgotten"} -> 2
    [] state = "Unknown" -> 3

\* C24: partial_cmp on MemoryState is the partial order of the diagram:
\* reflexive, antisymmetric and transitive, each comparable pair ordered
\* as in the diagram with a < b exactly when b > a, and Borrowed against
\* Forgotten, in either order, the only pair with no ordering.
C24_PartialOrder ==
  lat.kind = "partial_cmp" =>
    /\ lat.ordering = (IF lat.self = lat.other THEN "Equal"
                       ELSE IF Height(lat.self) < Height(lat.other) THEN "Less"
                       ELSE IF Height(lat.self) > Height(lat.other) THEN "Greater"
                       ELSE "None")
    /\ lat.ordering = "None" <=> {lat.self, lat.other} = {"Borrowed", "Forgotten"}
    /\ MSLe(lat.self, lat.self)
    /\ (MSLe(lat.self, lat.other) /\ MSLe(lat.other, lat.self)) => lat.self = lat.other
    /\ (MSLe(lat.self, lat.other) /\ MSLe(lat.other, lat.third)) => MSLe(lat.self, lat.third)
    /\ lat.ordering = "Less" <=> MSPartialCmp(lat.other, lat.self) = "Greater"

\* partial_cmp(Forgotten, Borrowed) has returned None.
C24_Witness ==
  /\ lat.kind = "partial_cmp" /\ lat.self = "Forgotten" /\ lat.other = "Borrowed"
  /\ lat.ordering = "None"

\* The diagnoses of function name that pass the two filters of the last
\* output_diagnoses.
Passing(name) ==
  {d \in out.diagnoses :
     /\ d.function_name = name
     /\ PassesThreshold(d, out.threshold)
     /\ \/ \E i \in 1..Len(out.crate_names) : starts_with(name, out.crate_names[i])
        \/ ~contains(name, "::")}

\* C25: output_diagnoses prints at most one diagnosis per function name
\* (the printed ones are a map keyed by it); a function gets one exactly
\* when the set holds a diagnosis for it with seriousness >= the threshold
\* and its name starts with a configured crate name or contains no "::";
\* the printed one has the maximum seriousness among those that pass.
C25_OutputFilter ==
  out.kind = "output_diagnoses" =>
    /\ DOMAIN out.issued = {name \in OutFunctions : Passing(name) # {}}
    /\ \A name \in DOMAIN out.issued :
         /\ out.issued[name] \in Passing(name)
         /\ \A d \in Passing(name) :
              SeriousnessRank(d.seriousness) <= SeriousnessRank(out.issued[name].seriousness)

\* Three diagnoses, two of them for demo::main with different seriousness,
\* one filtered out by its crate: one is printed, the more severe one.
C25_Witness ==
  /\ out.kind = "output_diagnoses" /\ out.threshold = "Medium" /\ out.crate_names = <<"demo">>
  /\ Cardinality(Passing("demo::main")) = 2
  /\ \E d \in out.diagnoses : d.function_name = "core::mem::forget" /\ d.seriousness = "High"
  /\ DOMAIN out.issued = {"demo::main"}
  /\ out.issued["demo::main"].seriousness = "High"
  /\ \E d \in Passing("demo::main") : d.seriousness = "Medium"

\* The step taken last applied a summary to the caller of an FFISink
\* callee whose bitcode is available.
KnownFFIApplied ==
  /\ last.cls = "FFIKnown"
  /\ last.kind = "return" \/ (IsCallEvent /\ last.note = "hit")
\* The diagnoses of the step that name the argument at position i.
DiagsFor(i) == {d \in last.diags : d.msg.arg = last.arguments[i].name}

\* C26: a call to an FFISink callee with bitcode is handled as a Normal
\* call (the summary is applied to destination and arguments), and then
\* each SSA argument that is Unknown or Forgotten gets a Medium
\* MemoryLeakage diagnosis marked foreign-code-known, for the calling
\* function; arguments in any other state get none.
C26_KnownFFILeak ==
  KnownFFIApplied =>
    /\ last.post \in ApplySummary(last.pre, last.arguments, last.dest,
                                  last.summary.parameters, last.summary.end_state,
                                  last.summary.ret_state)
    /\ \A i \in LocalArgs(last.arguments) :
         LET after == GetMemoryStates(last.post, last.arguments[i].name)
         IN /\ after \subseteq {"Unknown", "Forgotten"} =>
                 \E d \in DiagsFor(i) : d.msg.state \in after
            /\ after \cap {"Unknown", "Forgotten"} = {} => DiagsFor(i) = {}
    /\ \A d \in last.diags :
         /\ d.seriousness = "Medium" /\ BugKinds(d) = {"MemoryLeakage"} /\ d.ffi_known
         /\ d.function_name = demangle_name(last.func)
         /\ \E i \in LocalArgs(last.arguments) : d \in DiagsFor(i)

\* c_known has been analyzed for a Forgotten first and a Tainted second
\* argument: one diagnosis, for the first.
C26_Witness ==
  /\ KnownFFIApplied /\ last.kind = "return"
  /\ GetMemoryStates(last.post, last.arguments[1].name) = {"Forgotten"}
  /\ GetMemoryStates(last.post, last.arguments[2].name) = {"Tainted"}
  /\ Cardinality(last.diags) = 1 /\ DiagsFor(1) # {}

\* The positions of the incoming values of the phi just analyzed that are
\* SSA values and tainted before it.
TaintedIncoming ==
  {i \in LocalArgs(last.arguments) :
     \A st \in GetMemoryStates(last.pre, last.arguments[i].name) : MSLe("Tainted", st)}

\* C27: after a phi, if at least one SSA incoming value is tainted, the
\* destination has the state of the first tainted one in operand order; if
\* none is tainted, the destination is Untainted.
C27_PhiTakesFirstTainted ==
  (last.kind = "instr" /\ last.cls = "phi") =>
    IF TaintedIncoming # {}
    THEN LET first_tainted == CHOOSE i \in TaintedIncoming : \A j \in TaintedIncoming : i <= j
         IN GetMemoryStates(last.post, last.dest)
              = GetMemoryStates(last.pre, last.arguments[first_tainted].name)
    ELSE GetMemoryStates(last.post, last.dest) = {"Untainted"}

\* C28: insertelement and insertvalue never clear taint: when the inserted
\* SSA element is Untainted, the destination and every Name aliased with it
\* keep their states; when the element is tainted, the destination takes
\* the element's state.
C28_InsertKeepsTaint ==
  (/\ last.kind = "instr" /\ last.cls \in {"insertelement", "insertvalue"}
   /\ last.arguments[1].local) =>
    LET element == GetMemoryStates(last.pre, last.arguments[1].name)
    IN IF element = {"Untainted"}
       THEN \A name \in ClassOf(last.pre, last.dest) :
              GetMemoryStates(last.post, name) = GetMemoryStates(last.pre, name)
       ELSE GetMemoryStates(last.post, last.dest) = element

\* C29: when iterate_to_fixpoint has visited a block B with post-state
\* post: if domain[B] was missing or post is not <= domain[B], domain[B]
\* becomes post and B's successors are appended to the worklist;
\* otherwise domain[B] is left as it was and nothing is enqueued.
C29_DomainUpdate ==
  [][(stack # <<>> /\ Top.pc = "end_block" /\ Len(stack') = Len(stack) /\ stack' # stack) =>
       LET B == Top.bb
           post == Top.state
           domain == Top.taint_domain
           after == stack'[Len(stack)]
           missing == B \notin DOMAIN domain
       IN /\ (missing \/ BSLe(post, domain[B]) = {FALSE}) =>
               /\ after.taint_domain[B] = post
               /\ after.worklist = Top.worklist \o get_successors(CurFunction, B)
          /\ (~missing /\ BSLe(post, domain[B]) = {TRUE}) =>
               /\ after.taint_domain[B] = domain[B]
               /\ after.worklist = Top.worklist]_vars

\* set_tainted(n, S) and propagate_taint(from, to) are monotone from A to B:
\* whatever order the maps are iterated in, the result on A is <= the
\* result on B.
MonotoneFrom(A, B) ==
  /\ \A n \in DomNames, S \in DomStates :
       \A ra \in SetTainted(A, n, S), rb \in SetTainted(B, n, S) : BSLe(ra, rb) = {TRUE}
  /\ \A from \in DomNames, to \in DomNames :
       \A ra \in PropagateTaint(A, from, to), rb \in PropagateTaint(B, from, to) :
         BSLe(ra, rb) = {TRUE}

\* C30: every transfer function is monotone: for set_tainted(n, S) and
\* propagate_taint(from, to) with fixed arguments and all reachable
\* BlockStates A <= B, the result on A is <= the result on B.
C30_TransferMonotone ==
  ~dom.joined =>
    /\ BSLe(dom.a, dom.b) = {TRUE} => MonotoneFrom(dom.a, dom.b)
    /\ BSLe(dom.b, dom.a) = {TRUE} => MonotoneFrom(dom.b, dom.a)

\* Every Name in an Allocation of A is in an Allocation of B, with its
\* state in A <= its state in B.
NamewiseLe(A, B) ==
  \A v \in UNION (DOMAIN A) :
    /\ v \in UNION (DOMAIN B)
    /\ \A sa \in GetMemoryStates(A, v), sb \in GetMemoryStates(B, v) : MSLe(sa, sb)

\* A <= B and A < B as Rust derives them from partial_cmp, when every
\* iteration order agrees.
BSLeq(A, B) == BSLe(A, B) = {TRUE}
BSLess(A, B) ==
  \A ordA \in Orders(A), ordB \in Orders(B) : BSPartialCmpO(A, ordA, B, ordB) = "Less"

\* C31: <= on reachable BlockStates is a partial order: A <= B exactly when
\* every Name of A is in B with state in A <= state in B; it is reflexive,
\* transitive and antisymmetric (A <= B and B <= A imply A = B, and A < B
\* and B < A never both hold).
C31_BlockStateOrder ==
  LET A == dom.a
      B == dom.b
      D == dom.pre
  IN /\ (Disjoint(A) /\ Disjoint(B)) => (BSLeq(A, B) <=> NamewiseLe(A, B))
     /\ BSLeq(A, A) /\ BSLeq(B, B)
     /\ (BSLeq(D, A) /\ BSLeq(A, B)) => BSLeq(D, B)
     /\ (BSLeq(A, B) /\ BSLeq(B, A)) => A = B
     /\ ~(BSLess(A, B) /\ BSLess(B, A))

\* C32: propagate_taint(from, to) with from Untainted removes only to from
\* its Allocation: the other members stay together with their state, the
\* Allocation is dropped only when it becomes empty, every other Allocation
\* is untouched, and nothing changes when to is untracked.
C32_UntaintedPropagateRemovesTo ==
  (dom.kind = "propagate_taint" /\ GetMemoryStates(dom.pre, dom.var) = {"Untainted"}) =>
    IF \A alloc \in DOMAIN dom.pre : dom.to \notin alloc
    THEN dom.a = dom.pre
    ELSE \E alloc \in DOMAIN dom.pre :
           /\ dom.to \in alloc
           /\ \A other \in (DOMAIN dom.pre) \ {alloc} :
                other \in DOMAIN dom.a /\ dom.a[other] = dom.pre[other]
           /\ alloc \ {dom.to} # {} =>
                /\ alloc \ {dom.to} \in DOMAIN dom.a
                /\ dom.a[alloc \ {dom.to}] = dom.pre[alloc]
           /\ DOMAIN dom.a \subseteq ((DOMAIN dom.pre) \ {alloc}) \cup {alloc \ {dom.to}}
           /\ {} \notin DOMAIN dom.a

\* The step taken last was the invoke terminator of main (its result is %9).
IsMainInvoke ==
  /\ input.inv /\ last.kind \in {"invoke", "panic"}
  /\ last.func = "_ZN4demo4main" /\ last.dest = Num(9)
\* The intrinsics that return nothing: a call instruction to one of them has
\* no destination (handle_intrinsic asserts so for Memcpy and
\* VecIntoRawParts), while an invoke always carries its result name.
VoidIntrinsics == {"Memcpy", "Forget", "VecIntoRawParts"}
AsCallDest ==
  IF /\ input.fam = "intr" /\ last.callee.kind = "global"
     /\ get_intrinsic(demangle_name(last.callee.name)) \notin VoidIntrinsics
  THEN last.dest ELSE NoName
\* What a call instruction with the same callee and arguments does on the
\* same state.
AsCallResults ==
  CallResults(Prog(input), summary_cache, caps.depth, 0, demangle_name(last.func),
              last.pre, last.callee, last.arguments, AsCallDest)

\* C33: an invoke completes without a failed assertion and changes the
\* BlockState and the diagnoses exactly as a call to the same callee with
\* the same arguments does, void-returning intrinsics included.
C33_InvokeAsCall ==
  IsMainInvoke =>
    /\ last.kind # "panic"
    /\ \E r \in AsCallResults :
         r.type = "done" /\ r.state = last.post /\ r.diags = last.diags

\* The same for the callees that return a value, where call and invoke both
\* carry a destination.
C33_ValueInvokeAsCall ==
  (IsMainInvoke /\ AsCallDest # NoName) =>
    /\ \E r \in AsCallResults : r.type = "panic" <=> last.kind = "panic"
    /\ last.kind # "panic" =>
         \E r \in AsCallResults :
           r.type = "done" /\ r.state = last.post /\ r.diags = last.diags
\* invoke void Vec::into_raw_parts(%1, %2) aborts on assert!(*dest == None).
C33_InvokePanics ==
  /\ IsMainInvoke /\ last.kind = "panic"
  /\ last.callee = Global("_ZN5alloc3vec14into_raw_parts")
  /\ \A r \in AsCallResults : r.type = "done"

\* The intrinsic the last call, invoke or aborted call was dispatched to.
LastDispatched ==
  IF last.kind \in {"call", "invoke", "panic"} /\ last.callee.kind = "global"
     /\ last.cls = "Intrinsic"
  THEN get_intrinsic(demangle_name(last.callee.name)) ELSE "None"
\* Every name outside the Allocation of `name` reads as before the call.
OnlyClassChanged(name) ==
  \A v \in (UNION (DOMAIN last.pre) \cup UNION (DOMAIN last.post)) \ (ClassOf(last.pre, name) \cup {name}) :
    GetMemoryStates(last.post, v) = GetMemoryStates(last.pre, v)

\* C34: Unwrap and Forget never abort, whatever the number of arguments
\* (zero included) and with or without a result; when the argument or the
\* result they need is missing, the BlockState is unchanged or only the
\* escalation is applied.
C34_UnwrapForgetDefensive ==
  LastDispatched \in {"Unwrap", "Forget"} =>
    /\ last.kind # "panic"
    /\ Len(last.arguments) = 0 => last.post = last.pre
    /\ (LastDispatched = "Unwrap" /\ last.dest = NoName) => last.post = last.pre
    /\ (LastDispatched = "Forget" /\ last.dest = NoName /\ Len(last.arguments) >= 1) =>
         OnlyClassChanged(last.arguments[1].name)
\* The part of C34 that is about Forget, and about Unwrap with an argument.
C34_ForgetDefensive ==
  (LastDispatched = "Forget" \/ (LastDispatched = "Unwrap" /\ Len(last.arguments) >= 1)) =>
    /\ last.kind # "panic"
    /\ Len(last.arguments) = 0 => last.post = last.pre
    /\ (last.dest = NoName /\ Len(last.arguments) >= 1) =>
         OnlyClassChanged(last.arguments[1].name)
\* forget() with no argument and a result: nothing happens.
C34_ForgetNoArgument ==
  /\ LastDispatched = "Forget" /\ last.kind = "call"
  /\ last.arguments = <<>> /\ last.dest = Num(3) /\ last.post = last.pre

\* C35: after Forget, BoxIntoRaw or CStringIntoRaw with an SSA-valued arg0,
\* arg0 is at least Forgotten (Forgotten or Unknown) whatever its state
\* before the call, Borrowed included, and the result of BoxIntoRaw and
\* CStringIntoRaw has the same state.
C35_ForgetReachesForgotten ==
  (/\ LastIntrinsic \in {"Forget", "BoxIntoRaw", "CStringIntoRaw"}
   /\ Len(last.arguments) >= 1 /\ last.arguments[1].local) =>
    LET name == last.arguments[1].name IN
    /\ GetMemoryStates(last.post, name) \subseteq {"Forgotten", "Unknown"}
    /\ (LastIntrinsic # "Forget" /\ last.dest # NoName) =>
         GetMemoryStates(last.post, last.dest) = GetMemoryStates(last.post, name)
\* The same with a Borrowed arg0 left out.
C35_ExceptBorrowed ==
  (/\ LastIntrinsic \in {"Forget", "BoxIntoRaw", "CStringIntoRaw"}
   /\ Len(last.arguments) >= 1 /\ last.arguments[1].local
   /\ "Borrowed" \notin GetMemoryStates(last.pre, last.arguments[1].name)) =>
    LET name == last.arguments[1].name IN
    /\ GetMemoryStates(last.post, name) \subseteq {"Forgotten", "Unknown"}
    /\ (LastIntrinsic # "Forget" /\ last.dest # NoName) =>
         GetMemoryStates(last.post, last.dest) = GetMemoryStates(last.post, name)
\* Box::into_raw on a Borrowed %1 leaves %1 and the result Borrowed.
C35_BorrowedStays ==
  /\ LastIntrinsic = "BoxIntoRaw" /\ last.dest = Num(3)
  /\ GetMemoryStates(last.pre, Num(1)) = {"Borrowed"}
  /\ GetMemoryStates(last.post, Num(1)) = {"Borrowed"}
  /\ GetMemoryStates(last.post, Num(3)) = {"Borrowed"}

\* C36: the summary cached for a key does not depend on the call depth at
\* which it was computed: computed down a chain of calls that ends near
\* MAX_DEPTH it has the end_state and ret_state that the analysis of the
\* same function directly from an entry point gives.
C36_SummaryDepthIndependent ==
  status = "done" =>
    \A f \in BothWays :
      /\ summary_cache[<<f, <<>>>>][2] = results[f].ret_state
      /\ summary_cache[<<f, <<>>>>][1]
           \in get_state_after_call(Prog(input).functions[f], results[f].taint_domain)
\* c19 analyzed at depth 19 of the chain returns Untainted, directly Tainted.
C36_DepthChangesSummary ==
  /\ status = "done" /\ input.callee = "chain2" /\ "c19" \in BothWays
  /\ summary_cache[<<"c19", <<>>>>][2] = "Untainted"
  /\ results["c19"].ret_state = "Tainted"

\* Whether every basic block of the function of frame fr has a
\* post-condition in the frame's taint_domain.
AllBlocksAnalyzed(fr) ==
  LET function == Prog(input).functions[fr.func] IN
  \A k \in 1..Len(function.basic_blocks) :
    function.basic_blocks[k].name \in DOMAIN fr.taint_domain

\* C37: when iterate_to_fixpoint returns, every basic block of the function
\* has been analyzed at least once, so the taint_domain holds a post-state
\* for every block (and get_state_after_call joins over every Ret block),
\* whatever the number of blocks.
C37_EveryBlockAnalyzed ==
  \A i \in 1..Len(stack) : stack[i].pc = "returned" => AllBlocksAnalyzed(stack[i])
\* The same for the functions of at most MAX_ITERATION + 1 blocks.
C37_UpToLimit ==
  \A i \in 1..Len(stack) :
    (/\ stack[i].pc = "returned"
     /\ Len(Prog(input).functions[stack[i].func].basic_blocks) <= MAX_ITERATION + 1)
      => AllBlocksAnalyzed(stack[i])
\* The straight line of 202 blocks: the block with the ret was never visited,
\* and the summary says the function returns nothing tainted.
C37_RetBlockMissed ==
  /\ input.callee = "many" /\ status = "done"
  /\ summary_cache[<<"many", <<>>>>] = <<EmptyState, "Untainted">>

\* C38: BlockState::union is deterministic: it gives the same BlockState
\* whatever the order in which the names are visited, and get_memory_state
\* on the result gives one well-defined state for every Name.
C38_UnionDeterministic ==
  dom.kind = "union" =>
    /\ BSUnion(dom.pre, dom.b) = {dom.a}
    /\ \A name \in UNION (DOMAIN dom.a) : Cardinality(GetMemoryStates(dom.a, name)) = 1
\* The same for operands whose Allocations are pairwise disjoint.
C38_DisjointOperands ==
  (dom.kind = "union" /\ Disjoint(dom.pre) /\ Disjoint(dom.b)) =>
    /\ BSUnion(dom.pre, dom.b) = {dom.a}
    /\ \A name \in UNION (DOMAIN dom.a) : Cardinality(GetMemoryStates(dom.a, name)) = 1
\* The same for operands that share no name, or are equal.
C38_NoCommonName ==
  (/\ dom.kind = "union" /\ Disjoint(dom.pre) /\ Disjoint(dom.b)
   /\ (dom.pre = dom.b \/ (UNION (DOMAIN dom.pre)) \cap (UNION (DOMAIN dom.b)) = {})) =>
    /\ BSUnion(dom.pre, dom.b) = {dom.a}
    /\ \A name \in UNION (DOMAIN dom.a) : Cardinality(GetMemoryStates(dom.a, name)) = 1

====
